---------------------------- MODULE Spec2Model ----------------------------
(***************************************************************************)
(* Credential and authorization core of the FatSecret MCP server.          *)
(*                                                                         *)
(* One tenant (one FatSecretMcpServer object, src/unnamed/part_004) with   *)
(* its consumer credentials, OAuth 1.0 user token, pending request token, *)
(* OAuth 2.0 bearer-token cache and config file.  Tool handlers are async *)
(* functions on a single-threaded event loop: the code between two awaits *)
(* runs atomically, and every fetch is a suspension point.  Each handler  *)
(* that awaits a fetch is therefore two actions, <Handler>Begin (up to    *)
(* the fetch) and <Handler>End (from the response on).                    *)
(*                                                                         *)
(* An absent (undefined) or null string is the empty string "": the code  *)
(* only ever tests these fields for truthiness, and "" is falsy as well.  *)
(***************************************************************************)
EXTENDS Integers, Sequences, FiniteSets, Bags, TLC

\* ------------------------------------------------------------------ bounds

\* Handler invocations that can be suspended at a fetch at the same time.
MaxInFlight == 2
\* Cap on the counter of fetches issued to the Remote API.
MaxNetCalls == 3
\* Cap on the number of clock steps.
MaxTicks == 3
\* Cap on the number of requests the HTTP server takes without a session id.
MaxConns == 2
\* Longest string given to percentEncode.
MaxStrLen == 2
\* Longest key of a parameter map given to buildBaseString.
MaxKeyLen == 2
\* Most entries of a parameter map given to buildBaseString.
MaxParams == 2

\* --------------------------------------------------------- program constants

\* "(data.expires_in - 60) * 1000": the safety margin, in seconds.
MarginSec == 60
\* "(data.expires_in - 60) * 1000": milliseconds per second.
MsPerSec == 1000

\* One clock step, in milliseconds (Date.now() is in milliseconds).
TickMs == 30 * MsPerSec

\* ------------------------------------------------------------- input domains

Fields == {"clientId", "clientSecret", "consumerSecret", "accessToken", "accessTokenSecret"}

\* A Config (the parsed config file): every field a string, "" when absent.
EmptyConfig == [f \in Fields |-> ""]

FileCreds ==
    [EmptyConfig EXCEPT !.clientId = "id1", !.clientSecret = "cs1", !.consumerSecret = "os1"]

FileCredsAndTokens ==
    [FileCreds EXCEPT !.accessToken = "at0", !.accessTokenSecret = "ats0"]

\* A config file whose text is the JSON value null: it parses, to a value
\* that is no Config and has no property. The server never writes it.
NullConfig == [json |-> "null"]


\* process.env: FATSECRET_CLIENT_ID, FATSECRET_CLIENT_SECRET, FATSECRET_CONSUMER_SECRET.
EmptyEnv == [clientId |-> "", clientSecret |-> "", consumerSecret |-> ""]

\* The (config file, environment) pairs the process can start from: nothing
\* at all, a saved configuration with a user token, and saved credentials
\* with one of the three fields overridden at run time.
InitConfigs ==
    { << EmptyConfig, EmptyEnv >>,
      << FileCredsAndTokens, EmptyEnv >>,
      << FileCreds, [EmptyEnv EXCEPT !.clientId = "id2"] >> }

\* Every way the five fields of the config file and the three environment
\* variables can be set or not set at a start of the process, and a config
\* file that holds null.
LoadFiles ==
    [clientId : {"", "id1"}, clientSecret : {"", "cs1"}, consumerSecret : {"", "os1"},
     accessToken : {"", "at0"}, accessTokenSecret : {"", "ats0"}]
        \cup {NullConfig}

LoadEnvs == [clientId : {"", "id3"}, clientSecret : {"", "cs3"}, consumerSecret : {"", "os3"}]

\* The environment of a server whose operator supplies all three credentials.
EnvFull == [clientId |-> "id3", clientSecret |-> "cs3", consumerSecret |-> "os3"]

\* The (config file, environment) pairs the HTTP server is started with: a
\* machine where the stdio server saved a configuration, with and without
\* credentials in the environment, and a clean machine with credentials.
HttpConfigs ==
    { << FileCredsAndTokens, EnvFull >>,
      << FileCredsAndTokens, EmptyEnv >>,
      << EmptyConfig, EnvFull >> }

\* The values randomUUID() returns, in the order it returns them: as many
\* as there can be connections.
UUIDs == << "s1", "s2", "s3", "s4" >>

\* The values a client can send in the mcp-session-id header: any string.
HeaderIds == {UUIDs[k] : k \in 1..MaxConns} \cup {"nonexistent-session-id"}

\* The values a client can send in the Host header: a host, and a string
\* that is none.
Hosts == {"localhost", "a b"}

\* Request targets other than /mcp: a path no branch of createServer
\* names, /health, and a target that names an empty host.
Targets == {"/unknown", "/health", "//"}

\* req.method of a request that is not a preflight.
RequestMethods == {"GET", "POST", "DELETE"}

\* The message of the TypeError the URL constructor throws.
InvalidUrl == "Invalid URL"

\* Arguments of setup_credentials (z.string(): the empty string is accepted):
\* a full set of credentials, and one without the OAuth 2.0 client secret.
CredInputs ==
    { [client_id |-> "id2", client_secret |-> "cs2", consumer_secret |-> "os2"],
      [client_id |-> "id2", client_secret |-> "", consumer_secret |-> "os2"] }

\* Request tokens the upstream issues, each with its own secret and with the
\* verifier (PIN) the user obtains for it.
ReqTokens == {"rtA", "rtB"}

SecretOf(t) == IF t = "rtA" THEN "rsA" ELSE "rsB"

VerifierFor(t) == IF t = "rtA" THEN "vA" ELSE "vB"

\* Argument of complete_auth (z.string(): the empty string is accepted).
Verifiers == {"", "vA", "vB"}

\* User access tokens the upstream issues.
AccessTokens == {"at1", "at2"}

AccessSecretOf(t) == IF t = "at1" THEN "ats1" ELSE "ats2"

\* Bearer tokens and lifetimes (seconds) the token endpoint grants.
BearerTokens == {"b1", "b2"}

ExpiresInChoices == {30, 120}

\* Non-success HTTP statuses with their bodies.
ErrorStatuses == {401, 500}

BodyOf(status) == IF status = 401 THEN "unauthorized" ELSE "server error"


\* -------------------------------------------------------- upstream responses

Response(ok, status, body, token, secret, expires_in) ==
    [ok |-> ok, status |-> status, body |-> body, token |-> token,
     secret |-> secret, expires_in |-> expires_in]

\* fetch(...) resolved with a non-success status (response.ok is false).
ErrorResponses == { Response(FALSE, s, BodyOf(s), "", "", 0) : s \in ErrorStatuses }

\* What the token endpoint can answer to a client-credentials grant.
GrantResponses ==
    { Response(TRUE, 200, "", b, "", e) : b \in BearerTokens, e \in ExpiresInChoices }
        \cup ErrorResponses

\* Lifetimes (seconds) below, at and above the safety margin, and the grants
\* of one bearer token with each of them.
Lifetimes == {MarginSec - 30, MarginSec, MarginSec + 30, MarginSec + 60}

LifetimeGrantResponses ==
    { Response(TRUE, 200, "", "b1", "", e) : e \in Lifetimes } \cup ErrorResponses

\* What the request-token endpoint can answer: a token with its secret, a
\* success status whose body lacks oauth_token_secret, or a failure status.
RequestTokenResponses ==
    { Response(TRUE, 200, "", t, SecretOf(t), 0) : t \in ReqTokens }
        \cup { Response(TRUE, 200, "oauth_token=rtA", "rtA", "", 0) }
        \cup ErrorResponses

\* What the upstream answers to the handlers of the HTTP server's sessions:
\* one success and one failure of each endpoint.
SessionRequestTokenResponses ==
    { Response(TRUE, 200, "", "rtA", SecretOf("rtA"), 0),
      Response(FALSE, 401, BodyOf(401), "", "", 0) }

SessionAccessTokenResponses(tok, sec, ver) ==
    (IF sec = SecretOf(tok) /\ ver = VerifierFor(tok)
       THEN { Response(TRUE, 200, "", "at1", AccessSecretOf("at1"), 0) }
       ELSE {})
        \cup { Response(FALSE, 401, BodyOf(401), "", "", 0) }

SessionGrantResponses ==
    { Response(TRUE, 200, "", "b1", "", 120),
      Response(FALSE, 500, BodyOf(500), "", "", 0) }

\* What the access-token endpoint can answer to an exchange of request token
\* tok, signed with secret sec, for verifier ver: it issues a user token only
\* for a request token presented with its own secret and its own verifier.
AccessTokenResponses(tok, sec, ver) ==
    (IF sec = SecretOf(tok) /\ ver = VerifierFor(tok)
       THEN { Response(TRUE, 200, "", t, AccessSecretOf(t), 0) : t \in AccessTokens }
               \cup { Response(TRUE, 200, "oauth_token=at1", "at1", "", 0) }
       ELSE {})
        \cup ErrorResponses

\* ------------------------------------------------------------------- state

VARIABLES
    clientId,            \* this.clientId
    clientSecret,        \* this.clientSecret
    oauth1Credentials,   \* this.oauth1Credentials
    pendingOAuth,        \* this.pendingOAuth
    oauth2Token,         \* this.oauth2Token ("" for null)
    oauth2TokenExpiry,   \* this.oauth2TokenExpiry (epoch milliseconds)
    configFile,          \* ~/.fatsecret-mcp/config.json
    env,                 \* process.env
    now,                 \* Date.now()
    inflight,            \* the fetches handlers are suspended at (a bag)
    netCalls,            \* fetches issued so far
    last,                \* what the handler step just taken returned or threw
    grantedAt,           \* Date.now() when the cached bearer token was stored
    grantedFor,          \* expires_in of the cached bearer token
    issued,              \* the request tokens start_auth has stored, in order
    saved,               \* per field, the value last written to the config file
    sessions,            \* the sessions Map of the HTTP server: id -> connection
    conns,               \* the transports created, with sessionId and closed
    tenants,             \* the FatSecretMcpServer objects the HTTP server created
    alone,               \* per connection, its tenant as its own calls alone make it
    sessionInflight,     \* the fetches session handlers are suspended at (a bag)
    httpLast,            \* the last HTTP response written
    listening,           \* whether the process of the HTTP server is running
    signerIn,            \* the call of a function of the signer: which, and its arguments
    signerOut,           \* whether that call has returned, and the string it returned
    headerOut            \* the same for buildOAuth1Headers, called with the same arguments

vars ==
    << clientId, clientSecret, oauth1Credentials, pendingOAuth, oauth2Token,
       oauth2TokenExpiry, configFile, env, now, inflight, netCalls, last,
       grantedAt, grantedFor, issued, saved,
       sessions, conns, tenants, alone, sessionInflight, httpLast, listening,
       signerIn, signerOut, headerOut >>

\* The call of a function of the signer (src/oauth1.ts) and its result.
signerVars == << signerIn, signerOut, headerOut >>

\* The state of the HTTP server, which the stdio server does not have.
httpVars == << sessions, conns, tenants, alone, sessionInflight, httpLast, listening >>

\* The state of the one tenant of the stdio server, with its config file.
stdioVars ==
    << clientId, clientSecret, oauth1Credentials, pendingOAuth, oauth2Token,
       oauth2TokenExpiry, configFile, inflight, last, grantedAt, grantedFor,
       issued, saved >>

tenantVars == << clientId, clientSecret, oauth1Credentials, pendingOAuth >>

cacheVars == << oauth2Token, oauth2TokenExpiry, grantedAt, grantedFor >>

\* this.pendingOAuth: null, or { token, secret }.
NoPending == [present |-> FALSE, token |-> "", secret |-> ""]

Pending(token, secret) == [present |-> TRUE, token |-> token, secret |-> secret]

\* A handler suspended at a fetch: which fetch, and what the request carries.
\* For the OAuth 1.0 requests token is the oauth_token parameter ("" when
\* buildOAuth1Params adds none) and secret the token secret of the signing
\* key; requestToken alone adds oauth_callback, always "oob".
Suspended(at, token, secret, verifier) ==
    [at |-> at, token |-> token, secret |-> secret, verifier |-> verifier,
     callback |-> IF at = "requestToken" THEN "oob" ELSE ""]

\* The outcome of a handler: err is "" for a normal return, else the kind of
\* the Error thrown; fetched tells whether the handler awaited a fetch before
\* it ended; status and body are those an upstream failure puts in the
\* message; token and secret are the values in the text returned ("" for
\* what the text does not hold).
Outcome(op, err, fetched, status, body, token, secret) ==
    [op |-> op, err |-> err, fetched |-> fetched, status |-> status, body |-> body,
     token |-> token, secret |-> secret]

\* A return, respectively a throw, before any fetch.
Returned(op, token, secret) == Outcome(op, "", FALSE, 0, "", token, secret)

Thrown(op, err) == Outcome(op, err, FALSE, 0, "", "", "")

\* A return, respectively a throw, after the awaited fetch.
ReturnedAfterFetch(op, token, secret) == Outcome(op, "", TRUE, 0, "", token, secret)

ThrownAfterFetch(op, err) == Outcome(op, err, TRUE, 0, "", "", "")

\* "... failed: ${response.status} ${text}".
ThrownUpstream(op, resp) ==
    Outcome(op, "UpstreamError", TRUE, resp.status, resp.body, "", "")

\* new Map(): no session registered.
NoSessions == [id \in {} |-> 0]

\* No tool was called: the response carries no tool result.
NoResult == Returned("", "", "")

\* An HTTP response: its status and error message, the mcp-session-id header
\* of the request it answers ("" when it had none), the connection whose
\* transport served it (0 for none) and the result of the tool called.
HttpResponse(status, message, session, conn, result) ==
    [status |-> status, message |-> message, session |-> session, conn |-> conn,
     result |-> result]

\* A StreamableHTTPServerTransport: its sessionId ("" while undefined),
\* whether close() was called on it, and the request that made it while
\* handleMcpRequest has not yet handed it to the transport ("initialize" or
\* "other"; "" once the transport has handled it).
Connection(sessionId, closed, request) ==
    [sessionId |-> sessionId, closed |-> closed, request |-> request]

\* JavaScript's a || b on strings.
Or(a, b) == IF a # "" THEN a ELSE b

\* ------------------------------------------------------------ canonical signer

\* A JavaScript string is the sequence of its characters, each a
\* one-character string.  The characters are the printable ASCII ones, whose
\* UTF-16 code unit and UTF-8 byte are both the ASCII code: those of codes
\* 32 to 95 and those of codes 97 to 126 (a string of this notation cannot
\* hold the character of code 96, the grave accent).
AsciiFrom32 ==
    << " ", "!", "\"", "#", "$", "%", "&", "'", "(", ")", "*", "+", ",", "-", ".", "/",
       "0", "1", "2", "3", "4", "5", "6", "7", "8", "9", ":", ";", "<", "=", ">", "?",
       "@", "A", "B", "C", "D", "E", "F", "G", "H", "I", "J", "K", "L", "M", "N", "O",
       "P", "Q", "R", "S", "T", "U", "V", "W", "X", "Y", "Z", "[", "\\", "]", "^", "_" >>

AsciiFrom97 ==
    << "a", "b", "c", "d", "e", "f", "g", "h", "i", "j", "k", "l", "m", "n", "o",
       "p", "q", "r", "s", "t", "u", "v", "w", "x", "y", "z", "{", "|", "}", "~" >>

\* c.charCodeAt(0) and String.fromCharCode(n).
charCodeAt(c) ==
    IF \E i \in 1..Len(AsciiFrom32) : AsciiFrom32[i] = c
      THEN 31 + CHOOSE i \in 1..Len(AsciiFrom32) : AsciiFrom32[i] = c
      ELSE 96 + CHOOSE i \in 1..Len(AsciiFrom97) : AsciiFrom97[i] = c

fromCharCode(n) == IF n < 96 THEN AsciiFrom32[n - 31] ELSE AsciiFrom97[n - 96]

\* The digits of Number.prototype.toString(16).
HexDigits == << "0", "1", "2", "3", "4", "5", "6", "7", "8", "9", "a", "b", "c", "d", "e", "f" >>

\* n.toString(16): no leading zero, lower-case digits.
RECURSIVE toString16(_)
toString16(n) ==
    IF n < 16
      THEN << HexDigits[n + 1] >>
      ELSE toString16(n \div 16) \o << HexDigits[(n % 16) + 1] >>

\* str.toUpperCase().
toUpperCase(str) ==
    [i \in 1..Len(str) |->
        IF charCodeAt(str[i]) \in 97..122 THEN fromCharCode(charCodeAt(str[i]) - 32) ELSE str[i]]

\* The characters encodeURIComponent leaves as they are: A-Z a-z 0-9 and
\* - _ . ! ~ * ' ( ).
uriUnescaped(c) ==
    \/ charCodeAt(c) \in 48..57
    \/ charCodeAt(c) \in 65..90
    \/ charCodeAt(c) \in 97..122
    \/ c \in {"-", "_", ".", "!", "~", "*", "'", "(", ")"}

\* The escape encodeURIComponent writes for byte b: % and two upper-case
\* hexadecimal digits.
escapeByte(b) ==
    << "%" >> \o (IF b < 16 THEN << "0" >> ELSE << >>) \o toUpperCase(toString16(b))

\* The strings of sequence parts, one after the other (the sequence is
\* halved, so that long strings are built at a shallow depth).
RECURSIVE concat(_)
concat(parts) ==
    IF Len(parts) = 0
      THEN << >>
      ELSE IF Len(parts) = 1
             THEN parts[1]
             ELSE concat(SubSeq(parts, 1, Len(parts) \div 2))
                      \o concat(SubSeq(parts, (Len(parts) \div 2) + 1, Len(parts)))

\* encodeURIComponent(str): every character is left or escaped on its own.
encodeURIComponent(str) ==
    concat([i \in 1..Len(str) |->
               IF uriUnescaped(str[i]) THEN << str[i] >> ELSE escapeByte(charCodeAt(str[i]))])

\* str.replace(/[!'()*]/g, (c) => `%${c.charCodeAt(0).toString(16).toUpperCase()}`).
replaceReserved(str) ==
    concat([i \in 1..Len(str) |->
               IF str[i] \in {"!", "'", "(", ")", "*"}
                 THEN << "%" >> \o toUpperCase(toString16(charCodeAt(str[i])))
                 ELSE << str[i] >>])

\* percentEncode that is encodeURIComponent alone.
percentEncode_NoReplace(str) == encodeURIComponent(str)

\* percentEncode(str).
percentEncode(str) == replaceReserved(encodeURIComponent(str))

\* a < b as Array.prototype.sort() without a comparator compares strings: by
\* UTF-16 code units, a proper prefix first.
RECURSIVE stringLess(_, _)
stringLess(a, b) ==
    IF b = << >>
      THEN FALSE
      ELSE IF a = << >>
             THEN TRUE
             ELSE IF Head(a) # Head(b)
                    THEN charCodeAt(Head(a)) < charCodeAt(Head(b))
                    ELSE stringLess(Tail(a), Tail(b))

\* The strings of set S as .sort() orders them.
RECURSIVE sort(_)
sort(S) ==
    IF S = {}
      THEN << >>
      ELSE LET first == CHOOSE x \in S : \A y \in S : y = x \/ stringLess(x, y)
           IN  << first >> \o sort(S \ {first})

\* strs.join(sep).
RECURSIVE join(_, _)
join(strs, sep) ==
    IF strs = << >>
      THEN << >>
      ELSE IF Len(strs) = 1
             THEN Head(strs)
             ELSE Head(strs) \o sep \o join(Tail(strs), sep)

\* buildBaseString(method, url, params): params is the Record as a function
\* from its keys to their values; Object.keys(params).sort() orders the keys
\* as they are, before they are encoded.
buildBaseString(method, url, params) ==
    LET sortedKeys == sort(DOMAIN params)
        paramString ==
            join([i \in 1..Len(sortedKeys) |->
                     percentEncode(sortedKeys[i]) \o << "=" >>
                         \o percentEncode(params[sortedKeys[i]])],
                 << "&" >>)
    IN  toUpperCase(method) \o << "&" >> \o percentEncode(url)
            \o << "&" >> \o percentEncode(paramString)

\* The names of the protocol parameters, as strings.
oauth_consumer_key ==
    << "o", "a", "u", "t", "h", "_", "c", "o", "n", "s", "u", "m", "e", "r", "_", "k", "e", "y" >>

oauth_nonce ==
    << "o", "a", "u", "t", "h", "_", "n", "o", "n", "c", "e" >>

oauth_signature_method ==
    << "o", "a", "u", "t", "h", "_", "s", "i", "g", "n", "a", "t", "u", "r", "e", "_", "m", "e", "t", "h", "o", "d" >>

oauth_timestamp ==
    << "o", "a", "u", "t", "h", "_", "t", "i", "m", "e", "s", "t", "a", "m", "p" >>

oauth_version ==
    << "o", "a", "u", "t", "h", "_", "v", "e", "r", "s", "i", "o", "n" >>

oauth_token ==
    << "o", "a", "u", "t", "h", "_", "t", "o", "k", "e", "n" >>

oauth_signature ==
    << "o", "a", "u", "t", "h", "_", "s", "i", "g", "n", "a", "t", "u", "r", "e" >>

oauth_callback ==
    << "o", "a", "u", "t", "h", "_", "c", "a", "l", "l", "b", "a", "c", "k" >>

oauth_verifier ==
    << "o", "a", "u", "t", "h", "_", "v", "e", "r", "i", "f", "i", "e", "r" >>

\* { ...a, ...b }: the entries of a, then those of b over them.
spread(a, b) ==
    [k \in DOMAIN a \cup DOMAIN b |-> IF k \in DOMAIN b THEN b[k] ELSE a[k]]

\* crypto.createHmac('sha1', key).update(text).digest('base64').  The digest
\* is not computed: it is written as the key and the text it is the digest
\* of, so that two digests are equal exactly when key and text are.  A key is
\* two percent-encoded strings around &, and holds no #.
hmacSha1Base64(key, text) == << "#" >> \o key \o << "#" >> \o text

\* sign(baseString, consumerSecret, tokenSecret).
sign(baseString, consumerSecret, tokenSecret) ==
    hmacSha1Base64(percentEncode(consumerSecret) \o << "&" >> \o percentEncode(tokenSecret),
                   baseString)

\* The oauthParams object as buildOAuth1Params and buildOAuth1Headers first
\* make it; nonce and timestamp are what generateNonce() and
\* generateTimestamp() returned.
oauthParamsOf(credentials, nonce, timestamp) ==
    LET fixed == (oauth_consumer_key :> credentials.consumerKey)
                     @@ (oauth_nonce :> nonce)
                     @@ (oauth_signature_method :> << "H", "M", "A", "C", "-", "S", "H", "A", "1" >>)
                     @@ (oauth_timestamp :> timestamp)
                     @@ (oauth_version :> << "1", ".", "0" >>)
    IN  IF credentials.accessToken # << >>
          THEN spread(fixed, (oauth_token :> credentials.accessToken))
          ELSE fixed

\* allParams, the map the base string is built from.
allParamsOf(credentials, extraParams, nonce, timestamp) ==
    spread(oauthParamsOf(credentials, nonce, timestamp), extraParams)

\* The value assigned to oauthParams.oauth_signature.
signatureOf(method, url, credentials, extraParams, nonce, timestamp) ==
    sign(buildBaseString(method, url, allParamsOf(credentials, extraParams, nonce, timestamp)),
         credentials.consumerSecret, credentials.accessTokenSecret)

\* oauthParams after the assignment of oauth_signature.
signedOAuthParams(method, url, credentials, extraParams, nonce, timestamp) ==
    spread(oauthParamsOf(credentials, nonce, timestamp),
           (oauth_signature :>
                signatureOf(method, url, credentials, extraParams, nonce, timestamp)))

\* buildOAuth1Params(method, url, credentials, extraParams): the flat map
\* { ...oauthParams, ...extraParams }.
buildOAuth1Params(method, url, credentials, extraParams, nonce, timestamp) ==
    spread(signedOAuthParams(method, url, credentials, extraParams, nonce, timestamp),
           extraParams)

\* buildOAuth1Headers(method, url, credentials, extraParams): the keys of
\* oauthParams sorted, each written key="value", joined by a comma and a
\* space after "OAuth ".
buildOAuth1Headers(method, url, credentials, extraParams, nonce, timestamp) ==
    LET oauthParams ==
            signedOAuthParams(method, url, credentials, extraParams, nonce, timestamp)
        sortedKeys == sort(DOMAIN oauthParams)
        headerParts ==
            join([i \in 1..Len(sortedKeys) |->
                     percentEncode(sortedKeys[i]) \o << "=", "\"" >>
                         \o percentEncode(oauthParams[sortedKeys[i]]) \o << "\"" >>],
                 << ",", " " >>)
    IN  << "O", "A", "u", "t", "h", " " >> \o headerParts

\* No function of the signer is called; a call that has not returned.
NoCall == [fn |-> "none"]

NotReturned == [done |-> FALSE, value |-> << >>]

\* The strings of at most n characters of set chars.
Strings(chars, n) == UNION { [1..k -> chars] : k \in 0..n }

\* Arguments of percentEncode: strings of unreserved characters of each
\* kind, of the characters encodeURIComponent leaves to the replace, and of
\* other reserved characters.
EncodeChars ==
    {"a", "Z", "0", "-", "_", ".", "~", " ", "!", "*", "'", "(", ")", "+", "%", "&", "=", "/"}

EncodeCalls == { [fn |-> "percentEncode", str |-> str] : str \in Strings(EncodeChars, MaxStrLen) }

\* Arguments of buildBaseString: methods in either case, URLs without a
\* query string, and parameter maps whose keys are made of a digit and of a
\* reserved character that follows the digits in ASCII.
Methods == { << "g", "e", "t" >>, << "G", "E", "T" >>, << "P", "o", "s", "t" >> }

Urls ==
    { << "h", "t", "t", "p", "s", ":", "/", "/", "a", ".", "b", "/", "c" >>,
      << "h", "t", "t", "p", ":", "/", "/", "h", "/", "r", "~", "1" >> }

KeyChars == {"1", "="}

ParamValues == { << "x" >>, << "a", " ", "b" >> }

ParamMaps ==
    UNION { [K -> ParamValues] :
              K \in { S \in SUBSET Strings(KeyChars, MaxKeyLen) : Cardinality(S) <= MaxParams } }

BaseStringCalls ==
    { [fn |-> "buildBaseString", method |-> m, url |-> u, params |-> ps] :
        m \in Methods, u \in Urls, ps \in ParamMaps }

\* Arguments of buildOAuth1Params and buildOAuth1Headers.  The credentials
\* are consumer-only or carry a token and its secret; the secrets hold
\* characters that percentEncode escapes.
SignerCredentials ==
    { [consumerKey |-> << "c", "k" >>, consumerSecret |-> << "c", "&", "s" >>,
       accessToken |-> << >>, accessTokenSecret |-> << >>],
      [consumerKey |-> << "c", "k" >>, consumerSecret |-> << "c", "&", "s" >>,
       accessToken |-> << "t", "k" >>, accessTokenSecret |-> << "t", "/", "s" >>] }

\* What generateNonce() and generateTimestamp() return.
Nonces == { << "0", "a" >>, << "f", "9" >> }

Timestamps == { << "1", "7" >>, << "1", "8" >> }

\* The extraParams of the callers: none, those of requestToken and of
\* accessToken, the query parameters of a profile request, and maps with a
\* key that is also a key of oauthParams.
ExtraParamMaps ==
    { [k \in {} |-> << >>],
      (oauth_callback :> << "o", "o", "b" >>),
      (oauth_verifier :> << "v", " ", "1" >>),
      (<< "m", "e", "t", "h", "o", "d" >> :> << "f", "o", "o", "d", ".", "g", "e", "t" >>) @@ (<< "f", "o", "r", "m", "a", "t" >> :> << "j", "s", "o", "n" >>),
      (oauth_nonce :> << "z", "z" >>),
      (oauth_token :> << "t", "t" >>),
      (oauth_signature :> << "s", "g" >>) }

OAuth1Calls ==
    { [fn |-> "buildOAuth1", method |-> m, url |-> u, credentials |-> c, extraParams |-> e,
       nonce |-> n, timestamp |-> t] :
        m \in Methods, u \in Urls, c \in SignerCredentials, e \in ExtraParamMaps,
        n \in Nonces, t \in Timestamps }

\* --------------------------------------------------------- config management

\* loadConfig: the config file is the base, a set environment variable
\* overrides its field; the user token comes from the file alone.
loadConfig(fileConfig, environment) ==
    LET id == Or(environment.clientId, fileConfig.clientId)
    IN  [clientId |-> id,
         clientSecret |-> Or(environment.clientSecret, fileConfig.clientSecret),
         oauth1Credentials |->
             [consumerKey |-> id,
              consumerSecret |-> Or(environment.consumerSecret, fileConfig.consumerSecret),
              accessToken |-> fileConfig.accessToken,
              accessTokenSecret |-> fileConfig.accessTokenSecret]]

\* loadConfig that lets the failure to read a missing config file escape.
loadConfigError_MissingFileThrows(fileConfig) ==
    IF fileConfig = NullConfig
      THEN "TypeError"
      ELSE IF fileConfig = EmptyConfig THEN "ConfigMissing" ELSE ""

\* The kind of the Error loadConfig throws, "" when it returns: the read of
\* the file is inside try { } catch { }, and a file that is missing or does
\* not parse is read as {}. A file that holds null parses: fileConfig is
\* null, and the read of fileConfig.clientId, or of fileConfig.accessToken
\* when the environment sets all three variables, is outside the try and
\* throws TypeError.
loadConfigError(fileConfig) ==
    IF fileConfig = NullConfig THEN "TypeError" ELSE ""

\* The outcome of the constructor, which only calls loadConfig.
constructed(fileConfig) ==
    IF loadConfigError(fileConfig) = ""
      THEN Returned("constructor", "", "")
      ELSE Thrown("constructor", loadConfigError(fileConfig))

\* new FatSecretMcpServer() returned and server.run() was called: when the
\* constructor throws, the module ends with the exception, no server object
\* comes to be and the process serves no tool call.
running == last.op = "constructor" => last.err = ""

\* What a later read finds in the config file after saveConfig threw: the
\* record as it was when mkdirSync or the open of the file failed, and no
\* record when writeFileSync failed after the open, which truncates the
\* file (JSON.parse rejects the empty or partial text and both readers
\* catch that and go on with {}).
failedSave(existing) == {existing, EmptyConfig}

\* saveConfig: { ...existing, ...updates }, the record written back.
saveConfig(existing, updates) ==
    [f \in Fields |-> IF f \in DOMAIN updates THEN updates[f] ELSE existing[f]]

\* hasApiCredentials without its test of the OAuth 2.0 client secret.
hasApiCredentials_NoClientSecret ==
    clientId # "" /\ oauth1Credentials.consumerSecret # ""

hasApiCredentials ==
    clientId # "" /\ clientSecret # "" /\ oauth1Credentials.consumerSecret # ""

\* ensureApiCredentials that never throws.
ensureApiCredentials_Never == ""

\* ensureApiCredentials: the kind of the Error it throws, "" when it returns.
ensureApiCredentials == IF hasApiCredentials THEN "" ELSE "NotConfigured"

\* ensureProfileAuth without its test of the user token.
ensureProfileAuth_NoTokenCheck == ensureApiCredentials

\* ensureProfileAuth: the kind of the Error it throws, "" when it returns.
ensureProfileAuth ==
    IF ensureApiCredentials # ""
      THEN ensureApiCredentials
      ELSE IF oauth1Credentials.accessToken = "" \/ oauth1Credentials.accessTokenSecret = ""
             THEN "Unauthorized"
             ELSE ""

\* ------------------------------------------------------------------- Init

\* The state the constructor leaves: loadConfig() over the config file and
\* the environment, nothing pending, nothing cached, nothing in flight; and
\* the call of the signer that is about to be made, one of calls. When
\* loadConfig throws there is no server object: the fields are written as
\* their initialisers leave them and last holds the Error.
InitWith(starts, calls) ==
    /\ \E start \in starts : configFile = start[1] /\ env = start[2]
    /\ LET c == IF loadConfigError(configFile) = ""
                   THEN loadConfig(configFile, env)
                   ELSE loadConfig(EmptyConfig, EmptyEnv)
       IN  /\ clientId = c.clientId
           /\ clientSecret = c.clientSecret
           /\ oauth1Credentials = c.oauth1Credentials
    /\ pendingOAuth = NoPending
    /\ oauth2Token = ""
    /\ oauth2TokenExpiry = 0
    /\ now = 0
    /\ inflight = EmptyBag
    /\ netCalls = 0
    /\ last = constructed(configFile)
    /\ grantedAt = 0
    /\ grantedFor = 0
    /\ issued = << >>
    /\ saved = configFile
    /\ sessions = NoSessions
    /\ listening = TRUE
    /\ conns = << >>
    /\ tenants = << >>
    /\ alone = << >>
    /\ sessionInflight = EmptyBag
    /\ httpLast = HttpResponse(0, "", "", 0, NoResult)
    /\ signerIn \in calls
    /\ signerOut = NotReturned
    /\ headerOut = NotReturned

\* The same, with no function of the signer called.
InitFrom(starts) == InitWith(starts, {NoCall})

Init == InitFrom(InitConfigs)

\* The same, from every combination of set and unset fields.
InitLoad == InitFrom(LoadFiles \X LoadEnvs)

\* The process is started again: the constructor runs loadConfig over the
\* config file as it is now, and throws when loadConfig does; what the old
\* process held in memory, and the handlers it had suspended, are gone.
Restart ==
    /\ LET c == IF loadConfigError(configFile) = ""
                   THEN loadConfig(configFile, env)
                   ELSE loadConfig(EmptyConfig, EmptyEnv)
       IN  /\ clientId' = c.clientId
           /\ clientSecret' = c.clientSecret
           /\ oauth1Credentials' = c.oauth1Credentials
    /\ pendingOAuth' = NoPending
    /\ oauth2Token' = ""
    /\ oauth2TokenExpiry' = 0
    /\ inflight' = EmptyBag
    /\ last' = constructed(configFile)
    /\ grantedAt' = 0
    /\ grantedFor' = 0
    /\ issued' = << >>
    /\ UNCHANGED << configFile, saved, env, now, netCalls >>
    /\ UNCHANGED << httpVars, signerVars >>

\* ------------------------------------------------------------ auth tools

\* What check_auth_status reports: without credentials it reports both
\* facts as false, with them it reports whether a user token is stored.
checkAuthStatus ==
    LET hasCredentials == hasApiCredentials
        hasTokens == /\ oauth1Credentials.accessToken # ""
                     /\ oauth1Credentials.accessTokenSecret # ""
    IN  IF ~hasCredentials
          THEN [credentials_configured |-> FALSE, profile_authenticated |-> FALSE]
          ELSE [credentials_configured |-> TRUE, profile_authenticated |-> hasTokens]

\* A check_auth_status that abandons the authorization flow it reports on:
\* it resets this.pendingOAuth.
CheckAuthStatus_ResetsPending ==
    /\ last' = Returned("check_auth_status",
                        IF checkAuthStatus.credentials_configured THEN "true" ELSE "false",
                        IF checkAuthStatus.profile_authenticated THEN "true" ELSE "false")
    /\ pendingOAuth' = NoPending
    /\ UNCHANGED << clientId, clientSecret, oauth1Credentials, cacheVars, configFile, saved,
                    env, now, inflight, netCalls, issued >>
    /\ UNCHANGED << httpVars, signerVars >>

\* check_auth_status: reads the credential state and reports it (the two
\* facts travel in the token and secret fields of the outcome).
CheckAuthStatus ==
    /\ running
    /\ last' = Returned("check_auth_status",
                        IF checkAuthStatus.credentials_configured THEN "true" ELSE "false",
                        IF checkAuthStatus.profile_authenticated THEN "true" ELSE "false")
    /\ UNCHANGED << tenantVars, cacheVars, configFile, saved, env, now, inflight, netCalls, issued >>
    /\ UNCHANGED << httpVars, signerVars >>

\* setup_credentials that assigns the consumer secret alone and leaves the
\* consumer key it finds.
setupCredentialsOAuth1_SecretOnly(in) ==
    [oauth1Credentials EXCEPT !.consumerSecret = in.consumer_secret]

\* setup_credentials that replaces this.oauth1Credentials by a fresh object.
setupCredentialsOAuth1_Fresh(in) ==
    [consumerKey |-> in.client_id, consumerSecret |-> in.consumer_secret,
     accessToken |-> "", accessTokenSecret |-> ""]

\* What setup_credentials leaves in this.oauth1Credentials: it assigns the
\* two consumer fields of the object in place.
setupCredentialsOAuth1(in) ==
    [oauth1Credentials EXCEPT !.consumerKey = in.client_id,
                              !.consumerSecret = in.consumer_secret]

\* setup_credentials: sets the credentials in memory, resets the bearer-token
\* cache, then saves the three fields; saveConfig may throw, after the
\* assignments have been made, and then leaves the file as failedSave says.
SetupCredentials(in, diskOk) ==
    /\ running
    /\ clientId' = in.client_id
    /\ clientSecret' = in.client_secret
    /\ oauth1Credentials' = setupCredentialsOAuth1(in)
    /\ oauth2Token' = ""
    /\ oauth2TokenExpiry' = 0
    /\ IF diskOk
         THEN /\ configFile' = saveConfig(configFile,
                                   [clientId |-> in.client_id,
                                    clientSecret |-> in.client_secret,
                                    consumerSecret |-> in.consumer_secret])
              /\ saved' = [saved EXCEPT !.clientId = in.client_id,
                                        !.clientSecret = in.client_secret,
                                        !.consumerSecret = in.consumer_secret]
              /\ last' = Returned("setup_credentials", "", "")
         ELSE /\ configFile' \in failedSave(configFile)
              /\ saved' = saved
              /\ last' = Thrown("setup_credentials", "DiskError")
    /\ grantedAt' = 0
    /\ grantedFor' = 0
    /\ UNCHANGED << pendingOAuth, env, now, inflight, netCalls, issued >>
    /\ UNCHANGED << httpVars, signerVars >>

\* start_auth, up to the fetch inside requestToken: the request is signed
\* with this.oauth1Credentials as they are now (token and secret record the
\* oauth_token parameter and the token secret of the signing key).
StartAuthBegin ==
    /\ running
    /\ IF ensureApiCredentials # ""
         THEN /\ last' = Thrown("start_auth", ensureApiCredentials)
              /\ UNCHANGED << inflight, netCalls >>
         ELSE /\ netCalls < MaxNetCalls
              /\ BagCardinality(inflight) < MaxInFlight
              /\ netCalls' = netCalls + 1
              /\ inflight' = inflight (+) SetToBag({
                     Suspended("requestToken", oauth1Credentials.accessToken,
                               oauth1Credentials.accessTokenSecret, "")})
              /\ last' = last
    /\ UNCHANGED << tenantVars, cacheVars, configFile, saved, env, now, issued >>
    /\ UNCHANGED << httpVars, signerVars >>

\* start_auth that writes the two fields of this.pendingOAuth one by one and
\* is overtaken between the writes: the token is the new one, the secret is
\* still that of the token that was pending.
startAuthPending_Torn(resp) ==
    Pending(resp.token, IF pendingOAuth.present THEN pendingOAuth.secret ELSE resp.secret)

\* start_auth that keeps a request token already pending (queued, not overwritten).
startAuthPending_KeepFirst(resp) ==
    IF pendingOAuth.present THEN pendingOAuth ELSE Pending(resp.token, resp.secret)

\* The value start_auth assigns to this.pendingOAuth.
startAuthPending(resp) == Pending(resp.token, resp.secret)

\* start_auth, from the response of the request-token fetch on.
StartAuthEnd(req, resp) ==
    /\ BagIn(req, inflight)
    /\ req.at = "requestToken"
    /\ inflight' = inflight (-) SetToBag({req})
    /\ IF ~resp.ok
         THEN /\ last' = ThrownUpstream("start_auth", resp)
              /\ UNCHANGED << pendingOAuth, issued >>
         ELSE IF resp.token = "" \/ resp.secret = ""
                THEN /\ last' = ThrownAfterFetch("start_auth", "InvalidResponse")
                     /\ UNCHANGED << pendingOAuth, issued >>
                ELSE /\ pendingOAuth' = startAuthPending(resp)
                     /\ issued' = Append(issued, resp.token)
                     /\ last' = ReturnedAfterFetch("start_auth", resp.token, "")
    /\ UNCHANGED << clientId, clientSecret, oauth1Credentials, cacheVars,
                    configFile, saved, env, now, netCalls >>
    /\ UNCHANGED << httpVars, signerVars >>

\* complete_auth without its test of this.pendingOAuth.
completeAuthGuard_Missing == ""

\* complete_auth's guard: the kind of the Error it throws, "" when it goes on.
completeAuthGuard == IF ~pendingOAuth.present THEN "NoPendingAuthorization" ELSE ""

\* complete_auth whose accessToken() passes this.oauth1Credentials on as they
\* are: a stored user token and its secret sign the exchange, the pending
\* pair only when none is stored.
CompleteAuthBegin_SignsWithStoredToken(verifier) ==
    /\ IF completeAuthGuard # ""
         THEN /\ last' = Thrown("complete_auth", completeAuthGuard)
              /\ UNCHANGED << inflight, netCalls >>
         ELSE /\ netCalls < MaxNetCalls
              /\ BagCardinality(inflight) < MaxInFlight
              /\ netCalls' = netCalls + 1
              /\ inflight' = inflight (+) SetToBag({
                     Suspended("accessToken",
                               Or(oauth1Credentials.accessToken, pendingOAuth.token),
                               Or(oauth1Credentials.accessTokenSecret, pendingOAuth.secret),
                               verifier)})
              /\ last' = last
    /\ UNCHANGED << tenantVars, cacheVars, configFile, saved, env, now, issued >>
    /\ UNCHANGED << httpVars, signerVars >>

\* complete_auth, up to the fetch inside accessToken: the pending token, its
\* secret and the verifier are read now and travel with the request.
CompleteAuthBegin(verifier) ==
    /\ running
    /\ IF completeAuthGuard # ""
         THEN /\ last' = Thrown("complete_auth", completeAuthGuard)
              /\ UNCHANGED << inflight, netCalls >>
         ELSE /\ netCalls < MaxNetCalls
              /\ BagCardinality(inflight) < MaxInFlight
              /\ netCalls' = netCalls + 1
              /\ inflight' = inflight (+) SetToBag({
                     Suspended("accessToken", pendingOAuth.token, pendingOAuth.secret, verifier)})
              /\ last' = last
    /\ UNCHANGED << tenantVars, cacheVars, configFile, saved, env, now, issued >>
    /\ UNCHANGED << httpVars, signerVars >>

\* complete_auth that clears the pending token whatever the exchange returned.
completeAuthPendingOnFailure_Cleared == NoPending

\* The value complete_auth leaves in this.pendingOAuth when the exchange failed.
completeAuthPendingOnFailure == pendingOAuth

\* complete_auth, from the response of the access-token fetch on: save the
\* user token (saveConfig may throw and leave the file as failedSave says),
\* store it, clear the pending token;
\* the text returned holds a message and config_path, not the token.
CompleteAuthEnd(req, resp, diskOk) ==
    /\ BagIn(req, inflight)
    /\ req.at = "accessToken"
    /\ inflight' = inflight (-) SetToBag({req})
    /\ IF ~resp.ok
         THEN /\ last' = ThrownUpstream("complete_auth", resp)
              /\ pendingOAuth' = completeAuthPendingOnFailure
              /\ UNCHANGED << oauth1Credentials, configFile, saved >>
         ELSE IF resp.token = "" \/ resp.secret = ""
                THEN /\ last' = ThrownAfterFetch("complete_auth", "InvalidResponse")
                     /\ pendingOAuth' = completeAuthPendingOnFailure
                     /\ UNCHANGED << oauth1Credentials, configFile, saved >>
                ELSE IF ~diskOk
                       THEN /\ last' = ThrownAfterFetch("complete_auth", "DiskError")
                            /\ configFile' \in failedSave(configFile)
                            /\ UNCHANGED << pendingOAuth, oauth1Credentials, saved >>
                       ELSE /\ configFile' = saveConfig(configFile,
                                                 [accessToken |-> resp.token,
                                                  accessTokenSecret |-> resp.secret])
                            /\ saved' = [saved EXCEPT !.accessToken = resp.token,
                                                      !.accessTokenSecret = resp.secret]
                            /\ oauth1Credentials' =
                                   [oauth1Credentials EXCEPT !.accessToken = resp.token,
                                                             !.accessTokenSecret = resp.secret]
                            /\ pendingOAuth' = NoPending
                            /\ last' = ReturnedAfterFetch("complete_auth", "", "")
    /\ UNCHANGED << clientId, clientSecret, cacheVars, env, now, netCalls, issued >>
    /\ UNCHANGED << httpVars, signerVars >>

\* ------------------------------------------------------- OAuth 2.0 token

\* getOAuth2Token's test for serving the cached token.
cachedTokenValid == oauth2Token # "" /\ now < oauth2TokenExpiry

\* The expiry without the safety margin.
tokenExpiry_NoMargin(expires_in) == now + expires_in * MsPerSec

\* The expiry getOAuth2Token stores with a granted token.
tokenExpiry(expires_in) == now + (expires_in - MarginSec) * MsPerSec

\* getOAuth2Token, up to the fetch of the token endpoint (token and secret
\* record the client_id and client_secret of the request body).
GetTokenBegin ==
    /\ running
    /\ IF ensureApiCredentials # ""
         THEN /\ last' = Thrown("getToken", ensureApiCredentials)
              /\ UNCHANGED << inflight, netCalls >>
         ELSE IF cachedTokenValid
                THEN /\ last' = Returned("getToken", oauth2Token, "")
                     /\ UNCHANGED << inflight, netCalls >>
                ELSE /\ netCalls < MaxNetCalls
              /\ BagCardinality(inflight) < MaxInFlight
                     /\ netCalls' = netCalls + 1
                     /\ inflight' = inflight (+) SetToBag({
                            Suspended("grant", clientId, clientSecret, "")})
                     /\ last' = last
    /\ UNCHANGED << tenantVars, cacheVars, configFile, saved, env, now, issued >>
    /\ UNCHANGED << httpVars, signerVars >>

\* getOAuth2Token that drops the cached token when a grant fails.
tokenAfterFailedGrant_Cleared(resp) == ""

\* The token getOAuth2Token leaves cached after a non-success response.
tokenAfterFailedGrant(resp) == oauth2Token

\* getOAuth2Token, from the response of the token endpoint on.
GetTokenEnd(req, resp) ==
    /\ BagIn(req, inflight)
    /\ req.at = "grant"
    /\ inflight' = inflight (-) SetToBag({req})
    /\ IF ~resp.ok
         THEN /\ last' = ThrownUpstream("getToken", resp)
              /\ oauth2Token' = tokenAfterFailedGrant(resp)
              /\ UNCHANGED << oauth2TokenExpiry, grantedAt, grantedFor >>
         ELSE /\ oauth2Token' = resp.token
              /\ oauth2TokenExpiry' = tokenExpiry(resp.expires_in)
              /\ grantedAt' = now
              /\ grantedFor' = resp.expires_in
              /\ last' = ReturnedAfterFetch("getToken", resp.token, "")
    /\ UNCHANGED << tenantVars, configFile, saved, env, now, netCalls, issued >>
    /\ UNCHANGED << httpVars, signerVars >>

\* ---------------------------------------------------------- profile calls

\* A profile tool, up to the fetch: oauth1Middleware's onRequest checks the
\* authorization, then signs the request with the user token and its secret.
ProfileCallBegin ==
    /\ running
    /\ IF ensureProfileAuth # ""
         THEN /\ last' = Thrown("profile", ensureProfileAuth)
              /\ UNCHANGED << inflight, netCalls >>
         ELSE /\ netCalls < MaxNetCalls
              /\ BagCardinality(inflight) < MaxInFlight
              /\ netCalls' = netCalls + 1
              /\ inflight' = inflight (+) SetToBag({
                     Suspended("profile", oauth1Credentials.accessToken,
                               oauth1Credentials.accessTokenSecret, "")})
              /\ last' = last
    /\ UNCHANGED << tenantVars, cacheVars, configFile, saved, env, now, issued >>
    /\ UNCHANGED << httpVars, signerVars >>

\* A profile tool, from the response on: the tool returns the data, which is
\* absent after a non-success status.
ProfileCallEnd(req, ok) ==
    /\ BagIn(req, inflight)
    /\ req.at = "profile"
    /\ inflight' = inflight (-) SetToBag({req})
    /\ last' = ReturnedAfterFetch("profile", IF ok THEN "data" ELSE "", "")
    /\ UNCHANGED << tenantVars, cacheVars, configFile, saved, env, now, netCalls, issued >>
    /\ UNCHANGED << httpVars, signerVars >>

\* ------------------------------------------------------------------ clock

Tick ==
    /\ now < MaxTicks * TickMs
    /\ now' = now + TickMs
    /\ UNCHANGED << tenantVars, cacheVars, configFile, saved, env, inflight, netCalls, last, issued >>
    /\ UNCHANGED << httpVars, signerVars >>

\* ----------------------------------------------------------- signer calls

\* The call of percentEncode returns.
PercentEncode ==
    /\ signerIn.fn = "percentEncode"
    /\ ~signerOut.done
    /\ signerOut' = [done |-> TRUE, value |-> percentEncode(signerIn.str)]
    /\ UNCHANGED << stdioVars, httpVars, env, now, netCalls, signerIn, headerOut >>

\* The call of buildBaseString returns.
BuildBaseString ==
    /\ signerIn.fn = "buildBaseString"
    /\ ~signerOut.done
    /\ signerOut' = [done |-> TRUE,
                     value |-> buildBaseString(signerIn.method, signerIn.url, signerIn.params)]
    /\ UNCHANGED << stdioVars, httpVars, env, now, netCalls, signerIn, headerOut >>

\* The call of buildOAuth1Params returns the flat map; allParams, baseString
\* and signature are its locals of those names as it returns.
BuildOAuth1Params ==
    /\ signerIn.fn = "buildOAuth1"
    /\ ~signerOut.done
    /\ signerOut' =
           [done |-> TRUE,
            value |-> buildOAuth1Params(signerIn.method, signerIn.url, signerIn.credentials,
                                        signerIn.extraParams, signerIn.nonce, signerIn.timestamp),
            allParams |-> allParamsOf(signerIn.credentials, signerIn.extraParams,
                                      signerIn.nonce, signerIn.timestamp),
            baseString |-> buildBaseString(signerIn.method, signerIn.url,
                               allParamsOf(signerIn.credentials, signerIn.extraParams,
                                           signerIn.nonce, signerIn.timestamp)),
            signature |-> signatureOf(signerIn.method, signerIn.url, signerIn.credentials,
                                      signerIn.extraParams, signerIn.nonce, signerIn.timestamp)]
    /\ UNCHANGED << stdioVars, httpVars, env, now, netCalls, signerIn, headerOut >>

\* The call of buildOAuth1Headers, with the same arguments, nonce and
\* timestamp, returns the header value.
BuildOAuth1Headers ==
    /\ signerIn.fn = "buildOAuth1"
    /\ ~headerOut.done
    /\ headerOut' =
           [done |-> TRUE,
            value |-> buildOAuth1Headers(signerIn.method, signerIn.url, signerIn.credentials,
                                         signerIn.extraParams, signerIn.nonce, signerIn.timestamp)]
    /\ UNCHANGED << stdioVars, httpVars, env, now, netCalls, signerIn, signerOut >>

\* ------------------------------------------------------------ HTTP server

\* A networked tenant that reads the config file like the stdio tenant.
sessionLoad_ReadsFile(fileConfig) == fileConfig

\* What the constructor of a networked tenant (persistConfig: false) takes
\* from the config file: nothing.
sessionLoad(fileConfig) == EmptyConfig

\* new FatSecretMcpServer({ persistConfig: false }): the credentials of the
\* environment, no user token, nothing pending, nothing cached.
newSessionTenant(fileConfig, environment) ==
    LET c == loadConfig(sessionLoad(fileConfig), environment)
    IN  [clientId |-> c.clientId, clientSecret |-> c.clientSecret,
         oauth1Credentials |-> c.oauth1Credentials, pendingOAuth |-> NoPending,
         oauth2Token |-> "", oauth2TokenExpiry |-> 0]

\* The server object of connection c: handleMcpRequest makes a new one for
\* every request without a session id, and the closures of that request
\* (onsessioninitialized, the Map entry) hold it.
tenantOf(c) == c

\* A sessionIdGenerator that returns the same id every time.
sessionIdGenerator_Constant == {"s1"}

\* sessionIdGenerator: randomUUID() returns a value it has not returned
\* before, the next of UUIDs.
sessionIdGenerator ==
    {UUIDs[Cardinality({c \in DOMAIN conns : conns[c].sessionId # ""}) + 1]}

\* sessions.set(id, { server, transport }).
sessionsSet(id, c) ==
    [i \in DOMAIN sessions \cup {id} |-> IF i = id THEN c ELSE sessions[i]]

\* handleMcpRequest for a request without mcp-session-id, up to
\* await mcpServer.connect(transport): a new server and a new transport are
\* made; the transport has no session id, nothing is registered and nothing
\* is written to the response yet, and other requests are served meanwhile.
NewConnectionBegin(initialize) ==
    /\ listening
    /\ Len(conns) < MaxConns
    /\ tenants' = Append(tenants, newSessionTenant(configFile, env))
    /\ alone' = Append(alone, newSessionTenant(configFile, env))
    /\ conns' = Append(conns, Connection("", FALSE,
                                         IF initialize THEN "initialize" ELSE "other"))
    /\ UNCHANGED << stdioVars, signerVars, env, now, netCalls, sessionInflight,
                    sessions, httpLast, listening >>

\* handleMcpRequest for a request without mcp-session-id, from
\* await transport.handleRequest on: the transport c handles the request.
\* For an initialize request it generates the session id and
\* onsessioninitialized registers the pair; any other request it answers
\* 400, with no session.
NewConnectionEnd(c) ==
    /\ listening
    /\ c \in DOMAIN conns
    /\ conns[c].request # ""
    /\ IF conns[c].request = "initialize"
         THEN \E id \in sessionIdGenerator :
                  /\ conns' = [conns EXCEPT ![c] = Connection(id, FALSE, "")]
                  /\ sessions' = sessionsSet(id, c)
                  /\ httpLast' = HttpResponse(200, "", "", c, NoResult)
         ELSE /\ conns' = [conns EXCEPT ![c] = Connection("", FALSE, "")]
              /\ sessions' = sessions
              /\ httpLast' = HttpResponse(400, "Bad Request: Server not initialized", "",
                                          c, NoResult)
    /\ UNCHANGED << stdioVars, signerVars, env, now, netCalls, sessionInflight,
                    tenants, alone, listening >>

\* handleMcpRequest that goes on to make a new session when the id is unknown.
RouteUnknown_FallsThrough(id) ==
    /\ id \notin DOMAIN sessions
    /\ NewConnectionBegin(TRUE)

\* handleMcpRequest for an mcp-session-id that sessions.get does not find:
\* 404 with a JSON-RPC error, and nothing else.
RouteUnknown(id) ==
    /\ listening
    /\ id \notin DOMAIN sessions
    /\ httpLast' = HttpResponse(404, "Session not found. Client must reinitialize.", id, 0,
                                NoResult)
    /\ UNCHANGED << stdioVars, signerVars, env, now, netCalls, sessionInflight,
                    sessions, conns, tenants, alone, listening >>

\* A transport.onclose that leaves the Map entry in place.
onclose_Keep(c) == sessions

\* transport.onclose: sessions.delete(transport.sessionId) when it is set.
onclose(c) ==
    IF conns[c].sessionId # ""
      THEN [i \in DOMAIN sessions \ {conns[c].sessionId} |-> sessions[i]]
      ELSE sessions

\* A DELETE request routed to the transport of session id: the transport
\* closes, which calls onclose.
CloseSession(id) ==
    /\ listening
    /\ id \in DOMAIN sessions
    /\ conns' = [conns EXCEPT ![sessions[id]].closed = TRUE]
    /\ sessions' = onclose(sessions[id])
    /\ httpLast' = HttpResponse(200, "", id, sessions[id], NoResult)
    /\ UNCHANGED << stdioVars, signerVars, env, now, netCalls, sessionInflight, tenants, alone, listening >>

\* getSessionCount(): sessions.size.
getSessionCount == Cardinality(DOMAIN sessions)

\* What new URL(req.url || '/', 'http://' + (req.headers.host || 'localhost'))
\* gives createServer: the pathname of the request target, or InvalidUrl
\* when the constructor throws TypeError, which it does for a Host header
\* that is no host ('a b') and for a target that names an empty host ('//').
pathname(target, host) ==
    IF host = "a b" \/ target = "//"
      THEN InvalidUrl
      ELSE IF target = "" THEN "/" ELSE target

\* The listener of createServer throws: its promise rejects with nothing to
\* catch it, no response is written to the request (mcp-session-id id) and
\* the process ends. The sessions Map and the fetches its handlers were
\* suspended at go with it; no transport was closed and no onclose ran, so
\* conns keeps the sessions that were made and never closed.
ListenerThrows(id) ==
    /\ listening' = FALSE
    /\ sessions' = NoSessions
    /\ sessionInflight' = EmptyBag
    /\ httpLast' = HttpResponse(0, InvalidUrl, id, 0, NoResult)
    /\ UNCHANGED << stdioVars, signerVars, env, now, netCalls, conns, tenants, alone >>

\* createServer for a request to /mcp, of any method but OPTIONS and with
\* any body, whose Host header the URL constructor rejects: the listener
\* throws before the body is read and before mcpHandler is called.
McpInvalidUrl(id, host) ==
    /\ listening
    /\ pathname("/mcp", host) = InvalidUrl
    /\ ListenerThrows(id)

\* handleHealthRequest: 200 with { status: 'ok', sessions: sessions.size };
\* the count travels, as JSON.stringify writes it, in the token field of the
\* result, and the status word in its body field.
HandleHealthRequest ==
    /\ listening
    /\ httpLast' = HttpResponse(200, "", "", 0,
                                Outcome("health", "", FALSE, 0, "ok",
                                        ToString(getSessionCount), ""))
    /\ UNCHANGED << stdioVars, signerVars, env, now, netCalls, sessionInflight,
                    sessions, conns, tenants, alone, listening >>

\* createServer for GET /health with Host header host: the URL is parsed
\* first, then healthHandler is called.
Health(host) ==
    /\ listening
    /\ IF pathname("/health", host) = InvalidUrl
         THEN ListenerThrows("")
         ELSE HandleHealthRequest

\* createServer for an OPTIONS request, whatever its path and its
\* mcp-session-id header id ("" for none): 204 with an empty body, before
\* the path is looked at and before any handler is called.
Preflight(id) ==
    /\ listening
    /\ httpLast' = HttpResponse(204, "", id, 0, NoResult)
    /\ UNCHANGED << stdioVars, signerVars, env, now, netCalls, sessionInflight,
                    sessions, conns, tenants, alone, listening >>

\* createServer for a request that is neither OPTIONS, nor GET /health, nor
\* to /mcp, with method method, request target target and Host header
\* host: the URL is parsed first, and the listener throws when it cannot
\* be; else 404 with { error: 'Not found' }, and no handler is called. A
\* request to /health with a method other than GET is such a request.
NotFound(id, method, target, host) ==
    /\ listening
    /\ method # "OPTIONS"
    /\ ~(pathname(target, host) = "/health" /\ method = "GET")
    /\ pathname(target, host) # "/mcp"
    /\ IF pathname(target, host) = InvalidUrl
         THEN ListenerThrows(id)
         ELSE /\ httpLast' = HttpResponse(404, "Not found", id, 0, NoResult)
              /\ UNCHANGED << stdioVars, signerVars, env, now, netCalls, sessionInflight,
                              sessions, conns, tenants, alone, listening >>

\* createServer for a POST to /mcp whose body JSON.parse rejects, with
\* mcp-session-id id ("" for none) and Host header host: the URL is parsed
\* first, and the listener throws when it cannot be; else 400 with the
\* JSON-RPC error of code -32700 (in the status field of the result) and
\* message 'Parse error', and return, before mcpHandler is called.
ParseError(id, host) ==
    /\ listening
    /\ IF pathname("/mcp", host) = InvalidUrl
         THEN ListenerThrows(id)
         ELSE /\ httpLast' = HttpResponse(400, "Parse error", id, 0,
                                          Outcome("", "JsonRpcError", FALSE, -32700,
                                                  "Parse error", "", ""))
              /\ UNCHANGED << stdioVars, signerVars, env, now, netCalls, sessionInflight,
                              sessions, conns, tenants, alone, listening >>

\* ------------------------------------------------- tools of a session tenant

\* A session handler suspended at a fetch: the connection whose server object
\* runs it, and the request as in Suspended.
SessionSuspended(c, at, token, secret, verifier) ==
    [conn |-> c, req |-> Suspended(at, token, secret, verifier)]

\* The response to a tools/call that session id routed to connection c.
ToolResponse(id, c, result) == HttpResponse(200, "", id, c, result)

\* hasApiCredentials, ensureApiCredentials and ensureProfileAuth on the
\* fields of server object T.
tenantHasApiCredentials(T) ==
    T.clientId # "" /\ T.clientSecret # "" /\ T.oauth1Credentials.consumerSecret # ""

tenantEnsureApiCredentials(T) == IF tenantHasApiCredentials(T) THEN "" ELSE "NotConfigured"

tenantEnsureProfileAuth(T) ==
    IF tenantEnsureApiCredentials(T) # ""
      THEN tenantEnsureApiCredentials(T)
      ELSE IF T.oauth1Credentials.accessToken = "" \/ T.oauth1Credentials.accessTokenSecret = ""
             THEN "Unauthorized"
             ELSE ""

\* A networked tenant whose status reports the path of the config file.
sessionConfigPath_Reported == "~/.fatsecret-mcp/config.json"

\* The config_path a networked tenant reports: none.
sessionConfigPath == ""

\* check_auth_status on server object T (config_path travels in the body).
tenantCheckAuthStatus(T) ==
    LET hasCredentials == tenantHasApiCredentials(T)
        hasTokens == /\ T.oauth1Credentials.accessToken # ""
                     /\ T.oauth1Credentials.accessTokenSecret # ""
    IN  Outcome("check_auth_status", "", FALSE, 0, sessionConfigPath,
                IF hasCredentials THEN "true" ELSE "false",
                IF hasCredentials /\ hasTokens THEN "true" ELSE "false")

\* A networked tenant that registers setup_credentials like the stdio tenant.
sessionTools_WithSetup ==
    {"check_auth_status", "start_auth", "complete_auth", "profile", "setup_credentials"}

\* The auth and profile tools a networked tenant registers.
sessionTools == {"check_auth_status", "start_auth", "complete_auth", "profile"}

\* A networked tenant that saves to the config file like the stdio tenant.
sessionSave_Writes(existing, updates) == saveConfig(existing, updates)

\* What saveConfig leaves in the config file on a networked tenant
\* (persistConfig: false): the file as it was.
sessionSave(existing, updates) == existing

\* The server object after each handler's assignments.
tenantSetupCredentials(T, in) ==
    [T EXCEPT !.clientId = in.client_id, !.clientSecret = in.client_secret,
              !.oauth1Credentials.consumerKey = in.client_id,
              !.oauth1Credentials.consumerSecret = in.consumer_secret,
              !.oauth2Token = "", !.oauth2TokenExpiry = 0]

tenantStartAuth(T, resp) ==
    IF resp.ok /\ resp.token # "" /\ resp.secret # ""
      THEN [T EXCEPT !.pendingOAuth = Pending(resp.token, resp.secret)]
      ELSE T

tenantCompleteAuth(T, resp) ==
    IF resp.ok /\ resp.token # "" /\ resp.secret # ""
      THEN [T EXCEPT !.oauth1Credentials.accessToken = resp.token,
                     !.oauth1Credentials.accessTokenSecret = resp.secret,
                     !.pendingOAuth = NoPending]
      ELSE T

tenantGetToken(T, resp) ==
    IF resp.ok
      THEN [T EXCEPT !.oauth2Token = resp.token,
                     !.oauth2TokenExpiry = now + (resp.expires_in - MarginSec) * MsPerSec]
      ELSE T

\* What a handler returns or throws after its fetch was answered by resp:
\* start_auth returns the authorization URL, which holds the request token
\* and not its secret; complete_auth returns a message and config_path;
\* getOAuth2Token returns the bearer token.
resultAfterFetch(op, resp) ==
    IF ~resp.ok
      THEN ThrownUpstream(op, resp)
      ELSE IF op # "getToken" /\ (resp.token = "" \/ resp.secret = "")
             THEN ThrownAfterFetch(op, "InvalidResponse")
             ELSE ReturnedAfterFetch(op, IF op = "complete_auth" THEN "" ELSE resp.token, "")

\* A handler of session id ends before any fetch with result.
SessionReturns(id, result) ==
    /\ listening
    /\ httpLast' = ToolResponse(id, sessions[id], result)
    /\ UNCHANGED << stdioVars, signerVars, env, now, netCalls, sessionInflight,
                    sessions, conns, tenants, alone, listening >>

\* A handler of session id suspends at a fetch.
SessionFetches(id, at, token, secret, verifier) ==
    /\ listening
    /\ netCalls < MaxNetCalls
    /\ BagCardinality(sessionInflight) < MaxInFlight
    /\ netCalls' = netCalls + 1
    /\ sessionInflight' = sessionInflight (+) SetToBag({
           SessionSuspended(sessions[id], at, token, secret, verifier)})
    /\ UNCHANGED << stdioVars, signerVars, env, now, sessions, conns, tenants, alone, httpLast, listening >>

\* The fetch s is answered: the handler goes on with the server object of
\* its connection, leaves it as T, and returns result.
SessionResumes(s, T, A, result) ==
    /\ listening
    /\ BagIn(s, sessionInflight)
    /\ sessionInflight' = sessionInflight (-) SetToBag({s})
    /\ tenants' = [tenants EXCEPT ![tenantOf(s.conn)] = T]
    /\ alone' = [alone EXCEPT ![s.conn] = A]
    /\ httpLast' = ToolResponse(conns[s.conn].sessionId, s.conn, result)
    /\ UNCHANGED << clientId, clientSecret, oauth1Credentials, pendingOAuth, oauth2Token,
                    oauth2TokenExpiry, inflight, last, grantedAt, grantedFor, issued, saved,
                    env, now, netCalls, sessions, conns, signerVars, listening >>

\* check_auth_status, called in session id.
SessionCheckAuthStatus(id) ==
    /\ id \in DOMAIN sessions
    /\ SessionReturns(id, tenantCheckAuthStatus(tenants[tenantOf(sessions[id])]))

\* setup_credentials, called in session id: a tool the tenant has not
\* registered is answered with an error, and no handler runs.
SessionSetupCredentials(id, in) ==
    /\ listening
    /\ id \in DOMAIN sessions
    /\ IF "setup_credentials" \in sessionTools
         THEN /\ tenants' = [tenants EXCEPT ![tenantOf(sessions[id])] =
                                 tenantSetupCredentials(@, in)]
              /\ alone' = [alone EXCEPT ![sessions[id]] = tenantSetupCredentials(@, in)]
              /\ configFile' = sessionSave(configFile,
                                   [clientId |-> in.client_id,
                                    clientSecret |-> in.client_secret,
                                    consumerSecret |-> in.consumer_secret])
              /\ httpLast' = ToolResponse(id, sessions[id],
                                          Returned("setup_credentials", "", ""))
         ELSE /\ httpLast' = ToolResponse(id, sessions[id],
                                          Thrown("setup_credentials", "ToolNotFound"))
              /\ UNCHANGED << tenants, alone, configFile >>
    /\ UNCHANGED << clientId, clientSecret, oauth1Credentials, pendingOAuth, oauth2Token,
                    oauth2TokenExpiry, inflight, last, grantedAt, grantedFor, issued, saved,
                    env, now, netCalls, sessionInflight, sessions, conns, signerVars, listening >>

\* start_auth, called in session id, up to the fetch.
SessionStartAuthBegin(id) ==
    /\ id \in DOMAIN sessions
    /\ LET T == tenants[tenantOf(sessions[id])]
       IN  IF tenantEnsureApiCredentials(T) # ""
             THEN SessionReturns(id, Thrown("start_auth", tenantEnsureApiCredentials(T)))
             ELSE SessionFetches(id, "requestToken", T.oauth1Credentials.accessToken,
                                 T.oauth1Credentials.accessTokenSecret, "")

\* start_auth of a session, from the response on.
SessionStartAuthEnd(s, resp) ==
    /\ s.req.at = "requestToken"
    /\ SessionResumes(s, tenantStartAuth(tenants[tenantOf(s.conn)], resp),
                      tenantStartAuth(alone[s.conn], resp),
                      resultAfterFetch("start_auth", resp))
    /\ UNCHANGED configFile

\* complete_auth, called in session id, up to the fetch.
SessionCompleteAuthBegin(id, verifier) ==
    /\ id \in DOMAIN sessions
    /\ LET T == tenants[tenantOf(sessions[id])]
       IN  IF ~T.pendingOAuth.present
             THEN SessionReturns(id, Thrown("complete_auth", "NoPendingAuthorization"))
             ELSE SessionFetches(id, "accessToken", T.pendingOAuth.token,
                                 T.pendingOAuth.secret, verifier)

\* complete_auth of a session, from the response on.
SessionCompleteAuthEnd(s, resp) ==
    /\ s.req.at = "accessToken"
    /\ SessionResumes(s, tenantCompleteAuth(tenants[tenantOf(s.conn)], resp),
                      tenantCompleteAuth(alone[s.conn], resp),
                      resultAfterFetch("complete_auth", resp))
    /\ configFile' = IF resp.ok /\ resp.token # "" /\ resp.secret # ""
                       THEN sessionSave(configFile, [accessToken |-> resp.token,
                                                     accessTokenSecret |-> resp.secret])
                       ELSE configFile

\* getOAuth2Token, called by a public tool of session id, up to the fetch.
SessionGetTokenBegin(id) ==
    /\ id \in DOMAIN sessions
    /\ LET T == tenants[tenantOf(sessions[id])]
       IN  IF tenantEnsureApiCredentials(T) # ""
             THEN SessionReturns(id, Thrown("getToken", tenantEnsureApiCredentials(T)))
             ELSE IF T.oauth2Token # "" /\ now < T.oauth2TokenExpiry
                    THEN SessionReturns(id, Returned("getToken", T.oauth2Token, ""))
                    ELSE SessionFetches(id, "grant", T.clientId, T.clientSecret, "")

\* getOAuth2Token of a session, from the response on.
SessionGetTokenEnd(s, resp) ==
    /\ s.req.at = "grant"
    /\ SessionResumes(s, tenantGetToken(tenants[tenantOf(s.conn)], resp),
                      tenantGetToken(alone[s.conn], resp),
                      resultAfterFetch("getToken", resp))
    /\ UNCHANGED configFile

\* A profile tool, called in session id, up to the fetch.
SessionProfileCallBegin(id) ==
    /\ id \in DOMAIN sessions
    /\ LET T == tenants[tenantOf(sessions[id])]
       IN  IF tenantEnsureProfileAuth(T) # ""
             THEN SessionReturns(id, Thrown("profile", tenantEnsureProfileAuth(T)))
             ELSE SessionFetches(id, "profile", T.oauth1Credentials.accessToken,
                                 T.oauth1Credentials.accessTokenSecret, "")

\* A profile tool of a session, from the response on.
SessionProfileCallEnd(s, ok) ==
    /\ s.req.at = "profile"
    /\ SessionResumes(s, tenants[tenantOf(s.conn)], alone[s.conn],
                      ReturnedAfterFetch("profile", IF ok THEN "data" ELSE "", ""))
    /\ UNCHANGED configFile

\* A tools/call request with mcp-session-id id reaches a tool of the session.
Tools(id) ==
    \/ SessionCheckAuthStatus(id)
    \/ \E in \in CredInputs : SessionSetupCredentials(id, in)
    \/ SessionStartAuthBegin(id)
    \/ \E verifier \in Verifiers : SessionCompleteAuthBegin(id, verifier)
    \/ SessionGetTokenBegin(id)
    \/ SessionProfileCallBegin(id)

\* A request with mcp-session-id id is routed to the transport of a session.
Routed(id) == CloseSession(id) \/ Tools(id)

\* The fetch of a session handler is answered.
Answered ==
    \/ \E s \in BagToSet(sessionInflight), resp \in SessionRequestTokenResponses :
           SessionStartAuthEnd(s, resp)
    \/ \E s \in BagToSet(sessionInflight) :
           \E resp \in SessionAccessTokenResponses(s.req.token, s.req.secret, s.req.verifier) :
               SessionCompleteAuthEnd(s, resp)
    \/ \E s \in BagToSet(sessionInflight), resp \in SessionGrantResponses :
           SessionGetTokenEnd(s, resp)
    \/ \E s \in BagToSet(sessionInflight), ok \in BOOLEAN : SessionProfileCallEnd(s, ok)

\* ------------------------------------------------------------------- Next

Next ==
    \/ CheckAuthStatus
    \/ \E in \in CredInputs, diskOk \in BOOLEAN : SetupCredentials(in, diskOk)
    \/ StartAuthBegin
    \/ \E req \in BagToSet(inflight), resp \in RequestTokenResponses : StartAuthEnd(req, resp)
    \/ \E verifier \in Verifiers : CompleteAuthBegin(verifier)
    \/ \E req \in BagToSet(inflight), diskOk \in BOOLEAN :
          \E resp \in AccessTokenResponses(req.token, req.secret, req.verifier) :
              CompleteAuthEnd(req, resp, diskOk)
    \/ GetTokenBegin
    \/ \E req \in BagToSet(inflight), resp \in GrantResponses : GetTokenEnd(req, resp)
    \/ ProfileCallBegin
    \/ \E req \in BagToSet(inflight), ok \in BOOLEAN : ProfileCallEnd(req, ok)
    \/ Tick
    \/ Restart
    \/ \E initialize \in BOOLEAN : NewConnectionBegin(initialize)
    \/ \E c \in DOMAIN conns : NewConnectionEnd(c)
    \/ \E id \in HeaderIds : RouteUnknown(id)
    \/ \E id \in HeaderIds : Routed(id)
    \/ Answered
    \/ PercentEncode
    \/ BuildBaseString
    \/ BuildOAuth1Params
    \/ BuildOAuth1Headers
    \/ \E host \in Hosts : Health(host)
    \/ \E id \in HeaderIds \cup {""}, host \in Hosts : ParseError(id, host)
    \/ \E id \in HeaderIds \cup {""} : Preflight(id)
    \/ \E id \in HeaderIds \cup {""}, method \in RequestMethods :
           \E target \in Targets, host \in Hosts : NotFound(id, method, target, host)
    \/ \E id \in HeaderIds \cup {""}, host \in Hosts : McpInvalidUrl(id, host)

Spec == Init /\ [][Next]_vars

\* The OAuth 1.0 authorization flow and the profile calls alone.  The steps
\* left out (getOAuth2Token, the clock) neither read nor write the
\* credentials, the pending token, the user token or the config file.
NextAuth ==
    \/ CheckAuthStatus
    \/ \E in \in CredInputs, diskOk \in BOOLEAN : SetupCredentials(in, diskOk)
    \/ StartAuthBegin
    \/ \E req \in BagToSet(inflight), resp \in RequestTokenResponses : StartAuthEnd(req, resp)
    \/ \E verifier \in Verifiers : CompleteAuthBegin(verifier)
    \/ \E req \in BagToSet(inflight), diskOk \in BOOLEAN :
          \E resp \in AccessTokenResponses(req.token, req.secret, req.verifier) :
              CompleteAuthEnd(req, resp, diskOk)
    \/ ProfileCallBegin
    \/ \E req \in BagToSet(inflight), ok \in BOOLEAN : ProfileCallEnd(req, ok)

SpecAuth == Init /\ [][NextAuth]_vars

\* The OAuth 2.0 bearer-token cache alone, with the one other step that
\* writes it or the credentials it reads (setup_credentials) and the clock.
NextToken ==
    \/ \E in \in CredInputs, diskOk \in BOOLEAN : SetupCredentials(in, diskOk)
    \/ GetTokenBegin
    \/ \E req \in BagToSet(inflight), resp \in GrantResponses : GetTokenEnd(req, resp)
    \/ Tick

SpecToken == Init /\ [][NextToken]_vars

\* Starting the process, from every combination of set and unset fields,
\* with the one tool that rewrites the credentials between two starts.
NextLoad ==
    \/ \E in \in CredInputs, diskOk \in BOOLEAN : SetupCredentials(in, diskOk)
    \/ Restart

SpecLoad == InitLoad /\ [][NextLoad]_vars

\* The HTTP server.
InitSessions == InitFrom(HttpConfigs)

\* The session registry: sessions are made, looked up and closed, and the
\* tools that carry a session from unconfigured or configured to pending
\* are called in them.
NextRegistry ==
    \/ \E initialize \in BOOLEAN : NewConnectionBegin(initialize)
    \/ \E c \in DOMAIN conns : NewConnectionEnd(c)
    \/ \E id \in HeaderIds : RouteUnknown(id)
    \/ \E id \in HeaderIds : CloseSession(id)
    \/ \E id \in HeaderIds : SessionCheckAuthStatus(id)
    \/ \E id \in HeaderIds : SessionStartAuthBegin(id)
    \/ \E s \in BagToSet(sessionInflight), resp \in SessionRequestTokenResponses :
           SessionStartAuthEnd(s, resp)

SpecRegistry == InitSessions /\ [][NextRegistry]_vars

\* The tenants of the sessions: sessions are made, one initialize request
\* at a time (two at once are in SpecRegistry and SpecEndpoints), and every
\* tool is called in them and answered, in any interleaving with the
\* making of a session.
NextSessions ==
    \/ (\A c \in DOMAIN conns : conns[c].request = "") /\ NewConnectionBegin(TRUE)
    \/ \E c \in DOMAIN conns : NewConnectionEnd(c)
    \/ \E id \in HeaderIds : Tools(id)
    \/ Answered

SpecSessions == InitSessions /\ [][NextSessions]_vars

\* check_auth_status among every tool that writes what it reads or could
\* write: the credentials, the user token, the pending token, the
\* bearer-token cache and the config file.
NextStatus ==
    \/ CheckAuthStatus
    \/ \E in \in CredInputs, diskOk \in BOOLEAN : SetupCredentials(in, diskOk)
    \/ StartAuthBegin
    \/ \E req \in BagToSet(inflight), resp \in RequestTokenResponses : StartAuthEnd(req, resp)
    \/ \E verifier \in Verifiers : CompleteAuthBegin(verifier)
    \/ \E req \in BagToSet(inflight), diskOk \in BOOLEAN :
          \E resp \in AccessTokenResponses(req.token, req.secret, req.verifier) :
              CompleteAuthEnd(req, resp, diskOk)
    \/ GetTokenBegin
    \/ \E req \in BagToSet(inflight), resp \in GrantResponses : GetTokenEnd(req, resp)

SpecStatus == Init /\ [][NextStatus]_vars

\* percentEncode, applied to every string of the bounded alphabet.
InitEncode == InitWith({<< EmptyConfig, EmptyEnv >>}, EncodeCalls)

NextEncode == PercentEncode

SpecEncode == InitEncode /\ [][NextEncode]_vars

\* buildBaseString, applied to every method, URL and parameter map of the
\* bounded sets.
InitBaseString == InitWith({<< EmptyConfig, EmptyEnv >>}, BaseStringCalls)

NextBaseString == BuildBaseString

SpecBaseString == InitBaseString /\ [][NextBaseString]_vars

\* The endpoints of the HTTP server: sessions are made, looked up, used and
\* closed, the health endpoint is read, bodies that are not JSON are posted,
\* preflight requests and requests to unknown routes are made, requests
\* whose URL cannot be parsed end the process, and the clock advances.
NextEndpoints ==
    \/ \E initialize \in BOOLEAN : NewConnectionBegin(initialize)
    \/ \E c \in DOMAIN conns : NewConnectionEnd(c)
    \/ \E id \in HeaderIds : RouteUnknown(id)
    \/ \E id \in HeaderIds : CloseSession(id)
    \/ \E id \in HeaderIds : SessionCheckAuthStatus(id)
    \/ \E host \in Hosts : Health(host)
    \/ \E id \in HeaderIds \cup {""}, host \in Hosts : ParseError(id, host)
    \/ \E id \in HeaderIds \cup {""} : Preflight(id)
    \/ \E id \in HeaderIds \cup {""}, method \in RequestMethods :
           \E target \in Targets, host \in Hosts : NotFound(id, method, target, host)
    \/ \E id \in HeaderIds \cup {""}, host \in Hosts : McpInvalidUrl(id, host)
    \/ Tick

SpecEndpoints == InitSessions /\ [][NextEndpoints]_vars

\* The authorization flow of the stdio server across starts of the process:
\* the tools that write the config file, and the start that reads it.
NextRestart ==
    \/ \E in \in CredInputs, diskOk \in BOOLEAN : SetupCredentials(in, diskOk)
    \/ StartAuthBegin
    \/ \E req \in BagToSet(inflight), resp \in RequestTokenResponses : StartAuthEnd(req, resp)
    \/ \E verifier \in Verifiers : CompleteAuthBegin(verifier)
    \/ \E req \in BagToSet(inflight), diskOk \in BOOLEAN :
          \E resp \in AccessTokenResponses(req.token, req.secret, req.verifier) :
              CompleteAuthEnd(req, resp, diskOk)
    \/ Restart

SpecRestart == Init /\ [][NextRestart]_vars

\* The bearer-token cache under grants of every lifetime around the safety
\* margin, with setup_credentials and the clock.
NextLifetime ==
    \/ \E in \in CredInputs, diskOk \in BOOLEAN : SetupCredentials(in, diskOk)
    \/ GetTokenBegin
    \/ \E req \in BagToSet(inflight), resp \in LifetimeGrantResponses : GetTokenEnd(req, resp)
    \/ Tick

SpecLifetime == Init /\ [][NextLifetime]_vars

\* The two variants of the signer, applied to the same arguments, nonce and
\* timestamp.
InitOAuth1 == InitWith({<< EmptyConfig, EmptyEnv >>}, OAuth1Calls)

NextOAuth1 == BuildOAuth1Params \/ BuildOAuth1Headers

SpecOAuth1 == InitOAuth1 /\ [][NextOAuth1]_vars

\* ------------------------------------------------------------------ claims

\* The user access token or its secret is absent.
UserTokenAbsent ==
    oauth1Credentials.accessToken = "" \/ oauth1Credentials.accessTokenSecret = ""

\* C1: a profile call made while the user access token or its secret is
\* absent throws, issues no fetch (the count of fetches and the set of
\* requests in flight stay as they were), and no profile request is ever in
\* flight without a token and a token secret to sign it.
C1_ProtectedCallNeedsUserToken ==
    /\ [](\A req \in BagToSet(inflight) :
              req.at = "profile" => req.token # "" /\ req.secret # "")
    /\ [][ (ProfileCallBegin /\ UserTokenAbsent) =>
               /\ last'.op = "profile"
               /\ last'.err \in {"Unauthorized", "NotConfigured"}
               /\ netCalls' = netCalls
               /\ inflight' = inflight ]_vars

\* C1 witness: a profile call has just been refused as unauthorized, with
\* credentials configured, no user token, and no fetch ever issued.
C1_Witness ==
    /\ last = Thrown("profile", "Unauthorized")
    /\ hasApiCredentials
    /\ UserTokenAbsent
    /\ netCalls = 0

\* The consumer credentials (client id, client secret, consumer secret)
\* are not all present.
CredentialsAbsent ==
    clientId = "" \/ clientSecret = "" \/ oauth1Credentials.consumerSecret = ""

\* The number of handlers suspended at the fetch named kind.
InFlightAt(kind) ==
    BagCardinality([r \in {x \in BagToSet(inflight) : x.at = kind} |-> inflight[r]])

\* The step issues no fetch.
NoFetch == netCalls' = netCalls /\ inflight' = inflight

\* C2: at most one client-credentials grant is in flight at any time (what
\* "exactly one grant call for N concurrent getToken() calls" requires).
C2_SingleFlightGrant == InFlightAt("grant") <= 1

\* C3: complete_auth called while no request token is pending throws
\* NoPendingAuthorization, issues no fetch and leaves the user access token,
\* the pending slot and the config file as they were.
C3_CompleteWithoutPendingFails ==
    [][ \A v \in Verifiers :
          (CompleteAuthBegin(v) /\ ~pendingOAuth.present) =>
              /\ last' = Thrown("complete_auth", "NoPendingAuthorization")
              /\ NoFetch
              /\ UNCHANGED << oauth1Credentials, pendingOAuth, configFile >> ]_vars

\* C3 witness: complete_auth has just been refused, nothing is pending, no
\* start_auth has ever stored a token and no fetch was ever issued.
C3_Witness ==
    /\ last = Thrown("complete_auth", "NoPendingAuthorization")
    /\ ~pendingOAuth.present
    /\ issued = << >>
    /\ netCalls = 0

\* The request token the latest successful start_auth stored.
LastIssued == issued[Len(issued)]

\* C4: the pending slot, when set, holds the request token of the latest
\* successful start_auth with that token's secret; complete_auth sends that
\* token and secret; and an exchange whose verifier is not the one issued for
\* the token it carries fails and stores no user access token.
C4_OnlyLatestRequestTokenCompletes ==
    /\ [](pendingOAuth.present =>
              /\ Len(issued) > 0
              /\ pendingOAuth = Pending(LastIssued, SecretOf(LastIssued)))
    /\ [][ \A v \in Verifiers :
             (CompleteAuthBegin(v) /\ pendingOAuth.present) =>
                 inflight' = inflight (+) SetToBag({
                     Suspended("accessToken", LastIssued, SecretOf(LastIssued), v)}) ]_vars
    /\ [][ \A req \in BagToSet(inflight), diskOk \in BOOLEAN :
             \A resp \in AccessTokenResponses(req.token, req.secret, req.verifier) :
                 (CompleteAuthEnd(req, resp, diskOk) /\ req.verifier # VerifierFor(req.token)) =>
                     /\ last'.err # ""
                     /\ oauth1Credentials' = oauth1Credentials ]_vars

\* C4 witness: start_auth stored rtA, then rtB; complete_auth was then called
\* with the verifier issued for rtA, and its exchange, in flight, carries rtB.
C4_Witness ==
    /\ issued = << "rtA", "rtB" >>
    /\ netCalls = 3
    /\ inflight = SetToBag({Suspended("accessToken", "rtB", "rsB", "vA")})
    /\ pendingOAuth = Pending("rtB", "rsB")

\* The access-token response makes accessToken() throw.
ExchangeFailed(resp) == ~resp.ok \/ resp.token = "" \/ resp.secret = ""

\* C5: when the access-token exchange fails (non-success status, or a
\* response without the token or the secret) complete_auth throws and leaves
\* the pending request token, the user access token and the config file as
\* they were, so that the token it tried stays pending for a retry.
C5_FailedExchangeKeepsPending ==
    [][ \A req \in BagToSet(inflight), diskOk \in BOOLEAN :
          \A resp \in AccessTokenResponses(req.token, req.secret, req.verifier) :
              (CompleteAuthEnd(req, resp, diskOk) /\ ExchangeFailed(resp)) =>
                  /\ last'.op = "complete_auth"
                  /\ last'.err \in {"UpstreamError", "InvalidResponse"}
                  /\ UNCHANGED << pendingOAuth, oauth1Credentials, configFile >>
                  /\ (pendingOAuth = Pending(req.token, req.secret) =>
                          pendingOAuth' = Pending(req.token, req.secret)) ]_vars

\* C5 witness: start_auth stored a token, a complete_auth failed upstream,
\* and a second complete_auth is in flight with the same pending token.
C5_Witness ==
    /\ last.op = "complete_auth"
    /\ last.err = "UpstreamError"
    /\ Len(issued) = 1
    /\ netCalls = 3
    /\ pendingOAuth = Pending(LastIssued, SecretOf(LastIssued))
    /\ \E v \in Verifiers :
           inflight = SetToBag({Suspended("accessToken", pendingOAuth.token,
                                          pendingOAuth.secret, v)})

\* What a successful complete_auth leaves in memory and in the config file:
\* the token and secret the upstream returned, and no pending token.
C6_StoredAndPersisted ==
    [][ \A req \in BagToSet(inflight), diskOk \in BOOLEAN :
          \A resp \in AccessTokenResponses(req.token, req.secret, req.verifier) :
              (CompleteAuthEnd(req, resp, diskOk) /\ last'.err = "") =>
                  /\ oauth1Credentials'.accessToken = resp.token
                  /\ oauth1Credentials'.accessTokenSecret = resp.secret
                  /\ pendingOAuth' = NoPending
                  /\ configFile'.accessToken = resp.token
                  /\ configFile'.accessTokenSecret = resp.secret ]_vars

\* C6: after a successful complete_auth the tenant holds the access token and
\* secret the upstream returned, nothing is pending, the config file holds
\* the same token and secret, and check_auth_status reports the user as
\* authorized.
C6_CompletionStoresPersistsAndReports ==
    [][ \A req \in BagToSet(inflight), diskOk \in BOOLEAN :
          \A resp \in AccessTokenResponses(req.token, req.secret, req.verifier) :
              (CompleteAuthEnd(req, resp, diskOk) /\ last'.err = "") =>
                  /\ oauth1Credentials'.accessToken = resp.token
                  /\ oauth1Credentials'.accessTokenSecret = resp.secret
                  /\ pendingOAuth' = NoPending
                  /\ configFile'.accessToken = resp.token
                  /\ configFile'.accessTokenSecret = resp.secret
                  /\ checkAuthStatus'.profile_authenticated ]_vars

\* A bearer token is cached and the clock is before its safety-margin
\* deadline: grant time + expires_in - 60 s.
CachedBeforeDeadline ==
    /\ oauth2Token # ""
    /\ now < grantedAt + (grantedFor - MarginSec) * MsPerSec

\* The step returns the cached bearer token and issues no fetch.
ServedFromCache == last' = Returned("getToken", oauth2Token, "") /\ NoFetch

\* C7: getToken() returns the cached token without a fetch exactly when a
\* token is cached and the clock is before its deadline, and never returns
\* a cached token at or after the deadline.
C7_ServedExactlyBeforeDeadline ==
    [][ GetTokenBegin => (ServedFromCache <=> CachedBeforeDeadline) ]_vars

\* The part of C7 that holds: getToken() never returns a cached token at or
\* after its deadline and, on a tenant whose consumer credentials are
\* configured, it returns the cached token without a fetch exactly when a
\* token is cached and the clock is before its deadline.
C7_ServedExactlyBeforeDeadlineWhenConfigured ==
    [][ GetTokenBegin =>
            /\ ServedFromCache => CachedBeforeDeadline
            /\ ~CredentialsAbsent => (ServedFromCache <=> CachedBeforeDeadline) ]_vars

\* A token granted for 120 s was served from the cache one clock step after
\* the grant, on a configured tenant.
C7_Witness ==
    /\ last = Returned("getToken", oauth2Token, "")
    /\ oauth2Token # ""
    /\ grantedFor = 120
    /\ now = grantedAt + TickMs
    /\ ~CredentialsAbsent

\* C8: when the grant returns a non-success status getToken() throws an
\* error carrying the status and the body, and the cached token and its
\* expiry stay as they were.
C8_FailedGrantNotCached ==
    [][ \A req \in BagToSet(inflight), resp \in ErrorResponses :
          GetTokenEnd(req, resp) =>
              /\ last' = Outcome("getToken", "UpstreamError", TRUE,
                                 resp.status, resp.body, "", "")
              /\ UNCHANGED << oauth2Token, oauth2TokenExpiry >> ]_vars

\* C8 witness: a grant has just failed with status 500 while a token granted
\* earlier is cached.
C8_Witness ==
    /\ last.op = "getToken"
    /\ last.err = "UpstreamError"
    /\ last.status = 500
    /\ last.body = "server error"
    /\ oauth2Token # ""

\* C9: getToken() on a tenant without consumer credentials throws
\* NotConfigured, issues no fetch and leaves the token cache as it was.
C9_GetTokenNeedsCredentials ==
    [][ (GetTokenBegin /\ CredentialsAbsent) =>
            /\ last' = Thrown("getToken", "NotConfigured")
            /\ NoFetch
            /\ UNCHANGED << oauth2Token, oauth2TokenExpiry >> ]_vars

\* C9 witness: getToken() has just thrown NotConfigured although a token
\* that has not reached its expiry is cached.
C9_Witness ==
    /\ last = Thrown("getToken", "NotConfigured")
    /\ CredentialsAbsent
    /\ oauth2Token # ""
    /\ now < oauth2TokenExpiry

\* C10: start_auth without consumer credentials throws NotConfigured and
\* issues no fetch; when the request-token call fails it throws (with the
\* status and body on a non-success status); neither failure changes the
\* pending slot or the user access token; and the pending slot is set only
\* by a start_auth whose request-token call succeeded, to that call's token
\* and secret.
C10_StartAuthFailuresLeaveState ==
    /\ [][ (StartAuthBegin /\ CredentialsAbsent) =>
               /\ last' = Thrown("start_auth", "NotConfigured")
               /\ NoFetch
               /\ UNCHANGED << pendingOAuth, oauth1Credentials >> ]_vars
    /\ [][ \A req \in BagToSet(inflight), resp \in RequestTokenResponses :
             (StartAuthEnd(req, resp) /\ (~resp.ok \/ resp.token = "" \/ resp.secret = "")) =>
                 /\ last'.op = "start_auth"
                 /\ last'.err \in {"UpstreamError", "InvalidResponse"}
                 /\ ~resp.ok => last' = ThrownUpstream("start_auth", resp)
                 /\ UNCHANGED << pendingOAuth, oauth1Credentials >> ]_vars
    /\ [][ (pendingOAuth'.present /\ pendingOAuth' # pendingOAuth) =>
               /\ last' = ReturnedAfterFetch("start_auth", pendingOAuth'.token, "")
               /\ \E resp \in RequestTokenResponses :
                      /\ resp.ok
                      /\ pendingOAuth' = Pending(resp.token, resp.secret) ]_vars

\* C10 witness: a start_auth has just failed upstream with status 401 while
\* the token stored by an earlier start_auth is still pending.
C10_Witness ==
    /\ last = ThrownUpstream("start_auth", Response(FALSE, 401, BodyOf(401), "", "", 0))
    /\ Len(issued) = 1
    /\ pendingOAuth = Pending(LastIssued, SecretOf(LastIssued))

\* C11: every request-token call start_auth issues is signed with
\* consumer-only credentials: it carries oauth_callback=oob, no oauth_token
\* parameter, and an empty token secret in its signing key, also when a user
\* access token is stored (re-authorization).
C11_RequestTokenConsumerOnly ==
    \A req \in BagToSet(inflight) :
        req.at = "requestToken" =>
            /\ req.callback = "oob"
            /\ req.token = ""
            /\ req.secret = ""

\* C12: setup_credentials leaves the user access token and its secret as
\* they were, in this.oauth1Credentials and in the config file, whether or
\* not the write of the file succeeds.
C12_ConfigureKeepsUserToken ==
    [][ \A in \in CredInputs, diskOk \in BOOLEAN :
          SetupCredentials(in, diskOk) =>
              /\ oauth1Credentials'.accessToken = oauth1Credentials.accessToken
              /\ oauth1Credentials'.accessTokenSecret = oauth1Credentials.accessTokenSecret
              /\ configFile'.accessToken = configFile.accessToken
              /\ configFile'.accessTokenSecret = configFile.accessTokenSecret ]_vars

\* The part of C12 that holds: setup_credentials leaves the user access
\* token and its secret in this.oauth1Credentials as they were whether or
\* not the save succeeds, and in the config file when the save succeeds.
C12_KeptInMemoryAndBySuccessfulSave ==
    [][ \A in \in CredInputs, diskOk \in BOOLEAN :
          SetupCredentials(in, diskOk) =>
              /\ oauth1Credentials'.accessToken = oauth1Credentials.accessToken
              /\ oauth1Credentials'.accessTokenSecret = oauth1Credentials.accessTokenSecret
              /\ diskOk =>
                     /\ configFile'.accessToken = configFile.accessToken
                     /\ configFile'.accessTokenSecret = configFile.accessTokenSecret ]_vars

\* setup_credentials has just replaced the credentials of a tenant that
\* started with a user token; the token is still held in memory and in the
\* config file, next to the new client id.
C12_Witness ==
    /\ last = Returned("setup_credentials", "", "")
    /\ clientId = "id2"
    /\ configFile.clientId = "id2"
    /\ oauth1Credentials.accessToken = "at0"
    /\ oauth1Credentials.accessTokenSecret = "ats0"
    /\ configFile.accessToken = "at0"
    /\ configFile.accessTokenSecret = "ats0"

\* C13: a successful saveConfig writes the previous record overlaid with the
\* update (setup_credentials names the three credential fields, complete_auth
\* the token and its secret), every other field keeps its value, nothing else
\* writes the file, and so the file always holds, for every field, the value
\* last saved for it.
C13_SaveMergesIntoRecord ==
    /\ [](configFile = saved)
    /\ [][ \A in \in CredInputs :
             SetupCredentials(in, TRUE) =>
                 configFile' = [configFile EXCEPT !.clientId = in.client_id,
                                                  !.clientSecret = in.client_secret,
                                                  !.consumerSecret = in.consumer_secret] ]_vars
    /\ [][ \A req \in BagToSet(inflight) :
             \A resp \in AccessTokenResponses(req.token, req.secret, req.verifier) :
                 (CompleteAuthEnd(req, resp, TRUE) /\ ~ExchangeFailed(resp)) =>
                     configFile' = [configFile EXCEPT !.accessToken = resp.token,
                                                      !.accessTokenSecret = resp.secret] ]_vars
    /\ [][ configFile' # configFile =>
               /\ last'.op \in {"setup_credentials", "complete_auth"}
               /\ last'.err = "" ]_vars

\* The part of C13 that holds: a saveConfig that returns has written the
\* previous record overlaid with the update, and the file changes in no
\* step but one of setup_credentials or complete_auth.
C13_SuccessfulSaveMerges ==
    /\ [][ \A in \in CredInputs :
             SetupCredentials(in, TRUE) =>
                 configFile' = [configFile EXCEPT !.clientId = in.client_id,
                                                  !.clientSecret = in.client_secret,
                                                  !.consumerSecret = in.consumer_secret] ]_vars
    /\ [][ \A req \in BagToSet(inflight) :
             \A resp \in AccessTokenResponses(req.token, req.secret, req.verifier) :
                 (CompleteAuthEnd(req, resp, TRUE) /\ ~ExchangeFailed(resp)) =>
                     configFile' = [configFile EXCEPT !.accessToken = resp.token,
                                                      !.accessTokenSecret = resp.secret] ]_vars
    /\ [][ configFile' # configFile =>
               last'.op \in {"setup_credentials", "complete_auth"} ]_vars

\* The file a tenant started with (id1, cs1, os1, at0, ats0) has been saved
\* into by complete_auth and then by setup_credentials, and holds the token
\* of the one next to the credentials of the other.
C13_Witness ==
    /\ last = Returned("setup_credentials", "", "")
    /\ configFile = [clientId |-> "id2", clientSecret |-> "cs2", consumerSecret |-> "os2",
                     accessToken |-> "at1", accessTokenSecret |-> "ats1"]

\* The process has just been started: the constructor was the last step.
JustStarted == last.op = "constructor"

\* The value the config file holds for field f: none when the file holds no
\* record.
Persisted(f) == IF configFile = NullConfig THEN "" ELSE configFile[f]

C14_ResolvedWhenFileHoldsRecord ==
    (JustStarted /\ configFile # NullConfig) =>
        /\ last.err = ""
        /\ clientId = (IF env.clientId # "" THEN env.clientId ELSE configFile.clientId)
        /\ clientSecret =
               (IF env.clientSecret # "" THEN env.clientSecret ELSE configFile.clientSecret)
        /\ oauth1Credentials.consumerSecret =
               (IF env.consumerSecret # "" THEN env.consumerSecret ELSE configFile.consumerSecret)
        /\ oauth1Credentials.consumerKey = clientId

\* The process was started again with only the client id overridden, over
\* a file setup_credentials had rewritten: the client id is the override,
\* the two secrets are those of the file.
C14_Witness ==
    /\ JustStarted
    /\ configFile # NullConfig
    /\ env = [clientId |-> "id3", clientSecret |-> "", consumerSecret |-> ""]
    /\ configFile.clientId = "id2"
    /\ clientId = "id3"
    /\ clientSecret = "cs2"
    /\ oauth1Credentials.consumerSecret = "os2"

\* C15: a start with no config file throws nothing and leaves an empty
\* state: no user access token, nothing pending, nothing cached, and, when
\* no environment variable is set either, no consumer credentials.
C15_MissingFileLoadsEmpty ==
    (JustStarted /\ configFile = EmptyConfig) =>
        /\ last.err = ""
        /\ oauth1Credentials.accessToken = ""
        /\ oauth1Credentials.accessTokenSecret = ""
        /\ pendingOAuth = NoPending
        /\ oauth2Token = ""
        /\ env = EmptyEnv =>
               /\ clientId = ""
               /\ clientSecret = ""
               /\ oauth1Credentials.consumerKey = ""
               /\ oauth1Credentials.consumerSecret = ""

\* C15 witness: the process has started without a config file and without
\* environment variables, and holds nothing.
C15_Witness ==
    /\ last = Returned("constructor", "", "")
    /\ configFile = EmptyConfig
    /\ env = EmptyEnv
    /\ clientId = ""
    /\ oauth1Credentials =
           [consumerKey |-> "", consumerSecret |-> "", accessToken |-> "", accessTokenSecret |-> ""]

\* C16: a request whose mcp-session-id is not in the sessions Map is answered
\* 404 'Session not found', by no transport, and leaves the Map, the
\* transports and the server objects as they were: no session is created.
C16_UnknownSessionNotFound ==
    /\ [][ \A id \in HeaderIds :
             RouteUnknown(id) =>
                 /\ httpLast'.status = 404
                 /\ httpLast'.message = "Session not found. Client must reinitialize."
                 /\ httpLast'.conn = 0
                 /\ UNCHANGED << sessions, conns, tenants >> ]_vars
    /\ [][ (/\ httpLast' # httpLast
            /\ httpLast'.session # ""
            /\ httpLast'.session \notin DOMAIN sessions
            /\ ~httpLast'.result.fetched) =>
               /\ httpLast'.status = 404
               /\ httpLast'.conn = 0
               /\ UNCHANGED << sessions, conns, tenants >> ]_vars

\* C16 witness: with one session registered, a request carrying an id that
\* was never issued has just been answered 404, and the one session stands.
C16_Witness ==
    /\ httpLast = HttpResponse(404, "Session not found. Client must reinitialize.",
                               "nonexistent-session-id", 0, NoResult)
    /\ DOMAIN sessions = {"s1"}
    /\ Len(conns) = 1
    /\ Len(tenants) = 1

\* The session ids of the transports that were closed.
ClosedIds == {conns[c].sessionId : c \in {x \in DOMAIN conns : conns[x].closed}}

\* C17: the id of a closed session is not in the sessions Map, stays closed,
\* and no request carrying it is routed to a transport again, whatever
\* sessions are created or closed later: such a request is answered 404.
C17_ClosedIsTerminal ==
    /\ [](ClosedIds \cap DOMAIN sessions = {})
    /\ [][ ClosedIds \subseteq ClosedIds' ]_vars
    /\ [][ \A id \in ClosedIds :
             /\ ~Routed(id)
             /\ RouteUnknown(id) => httpLast'.status = 404 ]_vars

\* C17 witness: session s1 was closed, a second session was created after
\* it, and a request carrying s1 has just been answered 404.
C17_Witness ==
    /\ ClosedIds = {"s1"}
    /\ DOMAIN sessions = {"s2"}
    /\ httpLast.status = 404
    /\ httpLast.session = "s1"

\* C18: a request without mcp-session-id gets a new transport with a new
\* server object, which no registered session holds, and is handled by that
\* transport; both steps leave every other transport, every server object
\* and every Map entry as they were, and the second registers at most one
\* new id, for the new pair; the ids issued are pairwise different, each
\* session is registered under the id of its own transport, and no two
\* registered sessions share a transport or a server object.
C18_FreshTenantUniqueId ==
    /\ [][ \A initialize \in BOOLEAN :
             NewConnectionBegin(initialize) =>
                 /\ Len(conns') = Len(conns) + 1
                 /\ Len(tenants') = Len(tenants) + 1
                 /\ \A c \in DOMAIN conns : conns'[c] = conns[c] /\ tenants'[c] = tenants[c]
                 /\ sessions' = sessions
                 /\ \A i \in DOMAIN sessions :
                        tenantOf(sessions[i]) # tenantOf(Len(conns) + 1) ]_vars
    /\ [][ \A c \in DOMAIN conns :
             NewConnectionEnd(c) =>
                 /\ httpLast'.conn = c
                 /\ tenants' = tenants
                 /\ \A d \in DOMAIN conns \ {c} : conns'[d] = conns[d]
                 /\ \A i \in DOMAIN sessions :
                        /\ i \in DOMAIN sessions'
                        /\ sessions'[i] = sessions[i]
                        /\ sessions[i] # c
                 /\ \A i \in DOMAIN sessions' \ DOMAIN sessions : sessions'[i] = c ]_vars
    /\ [](\A c, d \in DOMAIN conns :
              (c # d /\ conns[c].sessionId # "") => conns[c].sessionId # conns[d].sessionId)
    /\ [](\A i \in DOMAIN sessions : conns[sessions[i]].sessionId = i)
    /\ [](\A i, j \in DOMAIN sessions :
              i # j => /\ sessions[i] # sessions[j]
                       /\ tenantOf(sessions[i]) # tenantOf(sessions[j]))

\* C18 witness: two sessions are registered, s1 to the first connection and
\* s2 to the second, and only the first has a request token pending.
C18_Witness ==
    /\ DOMAIN sessions = {"s1", "s2"}
    /\ sessions["s1"] = 1
    /\ sessions["s2"] = 2
    /\ tenants[1].pendingOAuth.present
    /\ ~tenants[2].pendingOAuth.present

C20_NetworkedTenantsEphemeral ==
    /\ [][ configFile' = configFile ]_vars
    /\ [][ NewConnectionBegin(TRUE) =>
               LET T == tenants'[Len(tenants')]
               IN  /\ T.oauth1Credentials.accessToken = ""
                   /\ T.oauth1Credentials.accessTokenSecret = ""
                   /\ T.clientId = env.clientId
                   /\ T.clientSecret = env.clientSecret
                   /\ T.oauth1Credentials.consumerSecret = env.consumerSecret ]_vars
    /\ []("setup_credentials" \notin sessionTools)
    /\ [][ \A id \in DOMAIN sessions, in \in CredInputs :
             SessionSetupCredentials(id, in) =>
                 /\ httpLast'.result.err = "ToolNotFound"
                 /\ tenants' = tenants ]_vars
    /\ [][ \A id \in DOMAIN sessions :
             SessionCheckAuthStatus(id) => httpLast'.result.body = "" ]_vars

\* C20 witness: a session has just completed its authorization and holds
\* the user token at1, on a machine whose config file holds the token at0
\* of the stdio server, untouched.
C20_Witness ==
    /\ httpLast.result = ReturnedAfterFetch("complete_auth", "", "")
    /\ tenants[httpLast.conn].oauth1Credentials.accessToken = "at1"
    /\ configFile = FileCredsAndTokens
    /\ configFile.accessToken = "at0"

\* C21: check_auth_status issues no fetch and leaves the consumer
\* credentials, the user access token, the pending request token, the
\* bearer-token cache and the config file as they were, in every state it is
\* called in; it only returns its report.
C21_StatusReadOnly ==
    [][ CheckAuthStatus =>
            /\ NoFetch
            /\ UNCHANGED << clientId, clientSecret, oauth1Credentials, pendingOAuth,
                            oauth2Token, oauth2TokenExpiry, configFile >>
            /\ last'.op = "check_auth_status"
            /\ last'.err = ""
            /\ ~last'.fetched ]_vars

\* C21 witness: check_auth_status has just returned on a tenant that holds a
\* pending request token and a cached bearer token, while an exchange is in
\* flight: all of them are still there.
C21_Witness ==
    /\ last.op = "check_auth_status"
    /\ pendingOAuth.present
    /\ oauth2Token # ""
    /\ InFlightAt("accessToken") = 1

\* C22: complete_auth requires a non-empty verifier as it requires a pending
\* request token: called with the empty verifier while a token is pending it
\* is refused with an error before any exchange is sent, and an exchange
\* that carries the empty verifier never stores a user access token, writes
\* the config file or clears the pending token.
C22_CompleteNeedsVerifier ==
    /\ [][ (CompleteAuthBegin("") /\ pendingOAuth.present) =>
               /\ last'.op = "complete_auth"
               /\ last'.err # ""
               /\ NoFetch
               /\ UNCHANGED << oauth1Credentials, pendingOAuth, configFile >> ]_vars
    /\ [][ \A req \in BagToSet(inflight), diskOk \in BOOLEAN :
             \A resp \in AccessTokenResponses(req.token, req.secret, req.verifier) :
                 (CompleteAuthEnd(req, resp, diskOk) /\ req.verifier = "") =>
                     UNCHANGED << oauth1Credentials, pendingOAuth, configFile >> ]_vars

\* The RFC 3986 unreserved characters: letters, digits, - _ . ~.
Unreserved(c) ==
    \/ c \in {"-", "_", ".", "~"}
    \/ \E i \in 1..Len(AsciiFrom32) : AsciiFrom32[i] = c /\ (i + 31 \in 48..57 \/ i + 31 \in 65..90)
    \/ \E i \in 1..26 : AsciiFrom97[i] = c

\* The upper-case hexadecimal digits.
UpperHex == << "0", "1", "2", "3", "4", "5", "6", "7", "8", "9", "A", "B", "C", "D", "E", "F" >>

\* What RFC 3986 percent-encoding makes of character c: itself when it is
\* unreserved, else % and the two upper-case hexadecimal digits of its code.
Escaped(c) ==
    IF Unreserved(c)
      THEN << c >>
      ELSE LET code == IF \E i \in 1..Len(AsciiFrom32) : AsciiFrom32[i] = c
                         THEN 31 + CHOOSE i \in 1..Len(AsciiFrom32) : AsciiFrom32[i] = c
                         ELSE 96 + CHOOSE i \in 1..Len(AsciiFrom97) : AsciiFrom97[i] = c
           IN  << "%", UpperHex[(code \div 16) + 1], UpperHex[(code % 16) + 1] >>

\* The escapes the claim names.
NamedEscapes ==
    { << " ", << "%", "2", "0" >> >>, << "!", << "%", "2", "1" >> >>,
      << "*", << "%", "2", "A" >> >>, << "'", << "%", "2", "7" >> >>,
      << "(", << "%", "2", "8" >> >>, << ")", << "%", "2", "9" >> >> }

\* The concatenation of the strings of sequence strs, by halves.
RECURSIVE Concat(_)
Concat(strs) ==
    IF Len(strs) = 0
      THEN << >>
      ELSE IF Len(strs) = 1
             THEN Head(strs)
             ELSE LET h == Len(strs) \div 2
                  IN  Concat([i \in 1..h |-> strs[i]])
                          \o Concat([i \in 1..(Len(strs) - h) |-> strs[h + i]])

\* C24: the string percentEncode returns is its argument with every
\* unreserved character (letters, digits, - _ . ~) left as it is and every
\* other character replaced by % and the two upper-case hexadecimal digits
\* of its code; it holds no + and no space; and a space, !, *, ', ( or )
\* alone becomes %20, %21, %2A, %27, %28, %29.
C24_PercentEncodeRfc3986 ==
    (signerIn.fn = "percentEncode" /\ signerOut.done) =>
        /\ signerOut.value =
               Concat([i \in 1..Len(signerIn.str) |-> Escaped(signerIn.str[i])])
        /\ \A i \in 1..Len(signerOut.value) : signerOut.value[i] \notin {"+", " "}
        /\ \A e \in NamedEscapes : signerIn.str = << e[1] >> => signerOut.value = e[2]

\* C24 witness: percentEncode has returned %20%2A for the string of a space
\* and *, the one escaped by encodeURIComponent and the other by the replace.
C24_Witness ==
    /\ signerIn = [fn |-> "percentEncode", str |-> << " ", "*" >>]
    /\ signerOut = [done |-> TRUE, value |-> << "%", "2", "0", "%", "2", "A" >>]

\* a precedes b in ascending byte order, a proper prefix first.
RECURSIVE BytesLess(_, _)
BytesLess(a, b) ==
    IF b = << >>
      THEN FALSE
      ELSE IF a = << >>
             THEN TRUE
             ELSE IF Head(a) # Head(b)
                    THEN charCodeAt(Head(a)) < charCodeAt(Head(b))
                    ELSE BytesLess(Tail(a), Tail(b))

\* The entries of a parameter map, each key and value percent-encoded.
EncodedEntries(params) ==
    { << Concat([i \in 1..Len(k) |-> Escaped(k[i])]),
         Concat([i \in 1..Len(params[k]) |-> Escaped(params[k][i])]) >> : k \in DOMAIN params }

\* Encoded entry e sorts before f: by encoded key, then by encoded value.
EntryLess(e, f) == BytesLess(e[1], f[1]) \/ (e[1] = f[1] /\ BytesLess(e[2], f[2]))

\* The encKey=encVal pairs of the entries E in that order, joined by &.
RECURSIVE NormalizedParams(_)
NormalizedParams(E) ==
    IF E = {}
      THEN << >>
      ELSE LET e == CHOOSE x \in E : \A y \in E : y = x \/ EntryLess(x, y)
           IN  e[1] \o << "=" >> \o e[2]
                   \o (IF E = {e} THEN << >> ELSE << "&" >> \o NormalizedParams(E \ {e}))

\* The method in upper case, over the letters the methods are written in.
UpperMethod(method) ==
    [i \in 1..Len(method) |->
        CASE method[i] = "g" -> "G" [] method[i] = "e" -> "E" [] method[i] = "t" -> "T"
          [] method[i] = "p" -> "P" [] method[i] = "o" -> "O" [] method[i] = "s" -> "S"
          [] OTHER -> method[i]]

\* The signature base string of RFC 5849 for method, url and params.
BaseStringRfc5849(method, url, params) ==
    LET P == NormalizedParams(EncodedEntries(params))
    IN  UpperMethod(method) \o << "&" >> \o Concat([i \in 1..Len(url) |-> Escaped(url[i])])
            \o << "&" >> \o Concat([i \in 1..Len(P) |-> Escaped(P[i])])

\* C23: the string buildBaseString returns is UPPERCASE(method) &
\* percentEncode(url) & percentEncode(P), where P joins the encKey=encVal
\* pairs with & after sorting the entries by percent-encoded key and then by
\* percent-encoded value; so it is the string returned for the same method
\* written in upper case.
C23_BaseStringSortedByEncodedKey ==
    (signerIn.fn = "buildBaseString" /\ signerOut.done) =>
        /\ signerOut.value = BaseStringRfc5849(signerIn.method, signerIn.url, signerIn.params)
        /\ signerOut.value =
               BaseStringRfc5849(UpperMethod(signerIn.method), signerIn.url, signerIn.params)

\* C25: what check_auth_status has just returned states two independent
\* facts about the tenant: credentials_configured is true exactly when the
\* consumer credentials are present, and profile_authenticated is true
\* exactly when a user access token and its secret are stored, whether or
\* not the credentials are present.
C25_StatusReportsIndependentFacts ==
    last.op = "check_auth_status" =>
        /\ (last.token = "true") <=> ~CredentialsAbsent
        /\ (last.secret = "true") <=> ~UserTokenAbsent

\* C26: a tenant that holds a user access token and its secret holds one
\* after every step, whichever tool takes it and however it ends; and the
\* token or its secret changes only in the step in which a complete_auth
\* whose exchange succeeded stores the token it was issued.
C26_UserTokenKept ==
    /\ [][ ~UserTokenAbsent =>
               /\ oauth1Credentials'.accessToken # ""
               /\ oauth1Credentials'.accessTokenSecret # "" ]_vars
    /\ [][ (\/ oauth1Credentials'.accessToken # oauth1Credentials.accessToken
            \/ oauth1Credentials'.accessTokenSecret # oauth1Credentials.accessTokenSecret) =>
               /\ \E req \in BagToSet(inflight) :
                      \E resp \in AccessTokenResponses(req.token, req.secret, req.verifier) :
                          /\ CompleteAuthEnd(req, resp, TRUE)
                          /\ ~ExchangeFailed(resp)
                          /\ oauth1Credentials'.accessToken = resp.token
                          /\ oauth1Credentials'.accessTokenSecret = resp.secret
               /\ last'.op = "complete_auth"
               /\ last'.err = "" ]_vars

\* C26 witness: the user token the tenant started with is still held after
\* a setup_credentials, a successful start_auth and a complete_auth that has
\* just failed upstream.
C26_Witness ==
    /\ last.op = "complete_auth"
    /\ last.err = "UpstreamError"
    /\ clientId = "id2"
    /\ pendingOAuth.present
    /\ netCalls = 2
    /\ oauth1Credentials.accessToken = "at0"
    /\ oauth1Credentials.accessTokenSecret = "ats0"

\* C27: when a complete_auth succeeds for the request token it exchanged, no
\* other complete_auth has submitted that same request token upstream: no
\* other exchange carrying it is in flight, not even one that was started
\* before the first one finished.
C27_RequestTokenExchangedOnce ==
    [][ \A req \in BagToSet(inflight), diskOk \in BOOLEAN :
          \A resp \in AccessTokenResponses(req.token, req.secret, req.verifier) :
              (CompleteAuthEnd(req, resp, diskOk) /\ last'.err = "") =>
                  \A other \in BagToSet(inflight') :
                      ~(other.at = "accessToken" /\ other.token = req.token) ]_vars

\* C28: a pending request token leaves the pending slot only in a step in
\* which a start_auth that succeeded stores its own token over it, or in
\* which a complete_auth that exchanged that same token succeeds; a
\* complete_auth that exchanged another (older) token leaves it pending.
C28_PendingKeptUntilConsumed ==
    [][ (pendingOAuth.present /\ pendingOAuth' # pendingOAuth) =>
            \/ \E req \in BagToSet(inflight), resp \in RequestTokenResponses :
                   /\ StartAuthEnd(req, resp)
                   /\ pendingOAuth' = Pending(resp.token, resp.secret)
            \/ \E req \in BagToSet(inflight) :
                   \E resp \in AccessTokenResponses(req.token, req.secret, req.verifier) :
                       /\ CompleteAuthEnd(req, resp, TRUE)
                       /\ ~ExchangeFailed(resp)
                       /\ req.token = pendingOAuth.token ]_vars

\* C29: in every state the pending slot is either empty or holds a request
\* token with the secret issued with it in one request-token response; a
\* start_auth that succeeds stores the token and the secret of its own
\* response together, over whatever was pending (last write wins); and every
\* access-token exchange carries a request token with its own secret.
C29_PendingNeverTorn ==
    /\ [](IF pendingOAuth.present
            THEN /\ pendingOAuth.token \in ReqTokens
                 /\ pendingOAuth.secret = SecretOf(pendingOAuth.token)
            ELSE pendingOAuth = NoPending)
    /\ [][ \A req \in BagToSet(inflight), resp \in RequestTokenResponses :
             (StartAuthEnd(req, resp) /\ last'.err = "") =>
                 /\ pendingOAuth'.present
                 /\ pendingOAuth'.token = resp.token
                 /\ pendingOAuth'.secret = resp.secret ]_vars
    /\ [](\A req \in BagToSet(inflight) :
              req.at = "accessToken" =>
                  /\ req.token \in ReqTokens
                  /\ req.secret = SecretOf(req.token))

\* C29 witness: a start_auth stored rtB, a complete_auth then sent rtB with
\* rsB, and another start_auth, answered while that exchange was in flight,
\* has just stored rtA with rsA over it.
C29_Witness ==
    /\ issued = << "rtB", "rtA" >>
    /\ last = ReturnedAfterFetch("start_auth", "rtA", "")
    /\ pendingOAuth = Pending("rtA", "rsA")
    /\ netCalls = 3
    /\ \E v \in Verifiers : inflight = SetToBag({Suspended("accessToken", "rtB", "rsB", v)})

\* The consumer credentials as the tenant holds them.
ConsumerCredentials ==
    << clientId, clientSecret, oauth1Credentials.consumerKey, oauth1Credentials.consumerSecret >>

\* C30 as stated: once the consumer key and the consumer secret are set, no
\* step changes them.
C30_CredentialsImmutableOnceSet ==
    [][ (oauth1Credentials.consumerKey # "" /\ oauth1Credentials.consumerSecret # "") =>
            /\ oauth1Credentials'.consumerKey = oauth1Credentials.consumerKey
            /\ oauth1Credentials'.consumerSecret = oauth1Credentials.consumerSecret ]_vars

\* C30 as amended: the consumer credentials change only in a
\* setup_credentials step, which sets them to its arguments whether or not
\* credentials were set before and whether or not the save succeeds; no
\* other tool changes them.
C30_CredentialsChangeOnlyByConfigure ==
    /\ [][ ConsumerCredentials' # ConsumerCredentials =>
               \E in \in CredInputs, diskOk \in BOOLEAN : SetupCredentials(in, diskOk) ]_vars
    /\ [][ \A in \in CredInputs, diskOk \in BOOLEAN :
             SetupCredentials(in, diskOk) =>
                 ConsumerCredentials' =
                     << in.client_id, in.client_secret, in.client_id, in.consumer_secret >> ]_vars

\* C30 witness: setup_credentials has just replaced the credentials of a
\* tenant that had credentials before (a start_auth made with them left its
\* request token pending) by the arguments of the call.
C30_Witness ==
    /\ last = Returned("setup_credentials", "", "")
    /\ pendingOAuth.present
    /\ ConsumerCredentials = << "id2", "", "id2", "os2" >>
    /\ configFile.clientSecret = ""

\* The user access tokens a tenant can hold, with their secrets: the one of
\* the config file at start and those the upstream returns.
UserTokens == {"at0"} \cup AccessTokens

UserTokenSecrets == {"ats0"} \cup {AccessSecretOf(t) : t \in AccessTokens}

\* C31: every access-token exchange complete_auth issues carries as
\* oauth_token the request token pending when it was called and signs with
\* that token's secret, also when a user access token is stored
\* (re-authorization); no exchange in flight ever carries a user access
\* token or signs with a user token secret.
C31_ExchangeSignedWithPendingToken ==
    /\ [](\A req \in BagToSet(inflight) :
              req.at = "accessToken" =>
                  /\ req.token \in ReqTokens
                  /\ req.secret = SecretOf(req.token)
                  /\ req.token \notin UserTokens
                  /\ req.secret \notin UserTokenSecrets)
    /\ [][ \A v \in Verifiers :
             (CompleteAuthBegin(v) /\ pendingOAuth.present) =>
                 \E req \in BagToSet(inflight') :
                     /\ inflight' = inflight (+) SetToBag({req})
                     /\ req.at = "accessToken"
                     /\ req.token = pendingOAuth.token
                     /\ req.secret = pendingOAuth.secret
                     /\ req.token # oauth1Credentials.accessToken
                     /\ req.secret # oauth1Credentials.accessTokenSecret ]_vars

\* C31 witness: a tenant that holds a user token and its secret
\* (re-authorization) has an exchange in flight that carries the pending
\* request token and its secret.
C31_Witness ==
    /\ oauth1Credentials.accessToken = "at0"
    /\ oauth1Credentials.accessTokenSecret = "ats0"
    /\ pendingOAuth.present
    /\ \E v \in Verifiers :
           BagIn(Suspended("accessToken", pendingOAuth.token, pendingOAuth.secret, v), inflight)

\* String s percent-encoded by RFC 3986.
Enc(s) == Concat([i \in 1..Len(s) |-> Escaped(s[i])])

\* The name of a protocol parameter: it begins with oauth_.
OAuthName(k) == Len(k) >= 6 /\ SubSeq(k, 1, 6) = << "o", "a", "u", "t", "h", "_" >>

\* The protocol parameters every signed request carries.
RequiredOAuthNames ==
    {oauth_consumer_key, oauth_nonce, oauth_signature_method, oauth_timestamp,
     oauth_version, oauth_signature}

\* The entries of map F under the keys K, in ascending order of key, each
\* written key="value" percent-encoded, separated by a comma and a space.
RECURSIVE HeaderParts(_, _)
HeaderParts(F, K) ==
    IF K = {}
      THEN << >>
      ELSE LET k == CHOOSE x \in K : \A y \in K : y = x \/ BytesLess(x, y)
           IN  Enc(k) \o << "=", "\"" >> \o Enc(F[k]) \o << "\"" >>
                   \o (IF K = {k} THEN << >> ELSE << ",", " " >> \o HeaderParts(F, K \ {k}))

\* C32: when both variants have signed the same method, URL, credentials,
\* caller parameters, nonce and timestamp, the Authorization header is
\* "OAuth " followed by parameters of the flat map with the values the flat
\* map gives them: oauth_signature and the other protocol parameters every
\* request carries, and no parameter whose name does not begin with oauth_,
\* in ascending order of key.
C32_HeaderAndFlatMapAgree ==
    (signerIn.fn = "buildOAuth1" /\ signerOut.done /\ headerOut.done) =>
        /\ RequiredOAuthNames \subseteq DOMAIN signerOut.value
        /\ \E O \in SUBSET {k \in DOMAIN signerOut.value \ RequiredOAuthNames : OAuthName(k)} :
               headerOut.value =
                   << "O", "A", "u", "t", "h", " " >>
                       \o HeaderParts(signerOut.value, RequiredOAuthNames \cup O)

\* The instant up to which a token granted for e seconds at the instant the
\* cached token was granted is served: grant time + e - 60 s.
ServedUntil(e) == grantedAt + (e - MarginSec) * MsPerSec

\* C33: a cached bearer token is served only before grant time + expires_in
\* - 60 s, so that whenever it is served, a token granted at the same instant
\* for any longer lifetime is before its own deadline too; a token granted
\* for 60 s or less is never served from the cache; and on a tenant whose
\* credentials are configured a cached token is served exactly while the
\* clock is before that deadline: one granted for 120 s during the 60 s that
\* follow the grant and not after.
C33_ValidityMonotoneInLifetime ==
    /\ [][ (GetTokenBegin /\ ServedFromCache) =>
               /\ now < ServedUntil(grantedFor)
               /\ \A e \in Lifetimes : e >= grantedFor => now < ServedUntil(e) ]_vars
    /\ [][ (GetTokenBegin /\ oauth2Token # "" /\ grantedFor <= MarginSec) =>
               ~ServedFromCache ]_vars
    /\ [][ (GetTokenBegin /\ ~CredentialsAbsent /\ oauth2Token # "") =>
               /\ ServedFromCache <=> now < ServedUntil(grantedFor)
               /\ grantedFor = 120 => (ServedFromCache <=> now - grantedAt < 60 * MsPerSec) ]_vars

\* C33 witness: a token granted for 90 s after the clock had advanced was
\* served from the cache at the instant of its grant, before its deadline 30 s
\* later.
C33_Witness ==
    /\ last = Returned("getToken", oauth2Token, "")
    /\ oauth2Token # ""
    /\ grantedFor = MarginSec + 30
    /\ grantedAt > 0
    /\ now = grantedAt

\* C34: a start of the process leaves in memory the user access token and
\* secret the tenant held before it, which are those the last successful
\* complete_auth wrote to the config file, so that a tenant that held a user
\* token holds it again without a new flow; a successful complete_auth
\* writes the token it stores; and when no environment variable is set the
\* start leaves in memory the credentials the last successful
\* setup_credentials wrote.
C34_RestartRecoversSavedState ==
    /\ [][ Restart =>
               /\ oauth1Credentials'.accessToken = oauth1Credentials.accessToken
               /\ oauth1Credentials'.accessTokenSecret = oauth1Credentials.accessTokenSecret
               /\ oauth1Credentials'.accessToken = saved.accessToken
               /\ oauth1Credentials'.accessTokenSecret = saved.accessTokenSecret
               /\ ~UserTokenAbsent => ~UserTokenAbsent'
               /\ env = EmptyEnv =>
                      /\ clientId' = saved.clientId
                      /\ clientSecret' = saved.clientSecret
                      /\ oauth1Credentials'.consumerKey = saved.clientId
                      /\ oauth1Credentials'.consumerSecret = saved.consumerSecret ]_vars
    /\ [][ \A req \in BagToSet(inflight), diskOk \in BOOLEAN :
             \A resp \in AccessTokenResponses(req.token, req.secret, req.verifier) :
                 (CompleteAuthEnd(req, resp, diskOk) /\ last'.err = "") =>
                     /\ saved'.accessToken = resp.token
                     /\ saved'.accessTokenSecret = resp.secret
                     /\ configFile'.accessToken = resp.token
                     /\ configFile'.accessTokenSecret = resp.secret ]_vars
    /\ [][ \A in \in CredInputs :
             SetupCredentials(in, TRUE) =>
                 /\ saved'.clientId = in.client_id
                 /\ saved'.clientSecret = in.client_secret
                 /\ saved'.consumerSecret = in.consumer_secret ]_vars

\* The part of C34 that holds: a start that finds in the file the values
\* last saved (no save has failed since) leaves in memory the user token the
\* tenant held and, with no environment variable set, the credentials last
\* saved; and a successful complete_auth writes the token it stores.
C34_RecoveredWhenNoSaveFailed ==
    /\ [][ (Restart /\ configFile = saved) =>
               /\ oauth1Credentials'.accessToken = saved.accessToken
               /\ oauth1Credentials'.accessTokenSecret = saved.accessTokenSecret
               /\ env = EmptyEnv =>
                      /\ clientId' = saved.clientId
                      /\ clientSecret' = saved.clientSecret
                      /\ oauth1Credentials'.consumerKey = saved.clientId
                      /\ oauth1Credentials'.consumerSecret = saved.consumerSecret ]_vars
    /\ [][ \A req \in BagToSet(inflight), diskOk \in BOOLEAN :
             \A resp \in AccessTokenResponses(req.token, req.secret, req.verifier) :
                 (CompleteAuthEnd(req, resp, diskOk) /\ last'.err = "") =>
                     /\ configFile'.accessToken = resp.token
                     /\ configFile'.accessTokenSecret = resp.secret ]_vars

\* A process started with no config file and no environment variable was
\* configured and authorized, and has just been started again: it holds the
\* credentials of setup_credentials and the token of complete_auth, and
\* nothing is pending.
C34_Witness ==
    /\ JustStarted
    /\ env = EmptyEnv
    /\ netCalls = 2
    /\ clientId = "id2"
    /\ clientSecret = "cs2"
    /\ oauth1Credentials.consumerSecret = "os2"
    /\ oauth1Credentials.accessToken = "at1"
    /\ oauth1Credentials.accessTokenSecret = "ats1"
    /\ pendingOAuth = NoPending
    /\ configFile # EmptyConfig

\* The ids of the sessions that were initialized and have not been closed.
OpenIds ==
    {conns[c].sessionId : c \in {x \in DOMAIN conns : conns[x].sessionId # "" /\ ~conns[x].closed}}

\* C35: the sessions Map holds exactly the ids of the sessions that were
\* initialized and have not been closed, each with its own transport; an id
\* leaves the Map only in the step that closes its own session, so not when
\* the clock advances nor when another session is created, used or closed;
\* and the health endpoint reports the number of those sessions.
C35_RegistryIsOpenSessions ==
    /\ [](DOMAIN sessions = OpenIds)
    /\ [](\A id \in DOMAIN sessions : conns[sessions[id]].sessionId = id)
    /\ [][ \A id \in DOMAIN sessions :
             id \notin DOMAIN sessions' =>
                 /\ CloseSession(id)
                 /\ DOMAIN sessions' = DOMAIN sessions \ {id} ]_vars
    /\ [][ Tick => sessions' = sessions ]_vars
    /\ [][ HandleHealthRequest =>
               /\ httpLast'.status = 200
               /\ httpLast'.result.body = "ok"
               /\ httpLast'.result.token = ToString(Cardinality(OpenIds))
               /\ sessions' = sessions ]_vars

\* The part of C35 that holds: while the process runs, the sessions Map
\* holds exactly the ids of the sessions initialized and not closed; in a
\* step the listener does not throw in, an id leaves the Map only by the
\* close of its own session; the clock leaves the Map alone; and
\* handleHealthRequest reports the number of those sessions.
C35_RegistryWhileListening ==
    /\ [](listening => DOMAIN sessions = OpenIds)
    /\ [](\A id \in DOMAIN sessions : conns[sessions[id]].sessionId = id)
    /\ [][ listening' =>
               \A id \in DOMAIN sessions :
                   id \notin DOMAIN sessions' =>
                       /\ CloseSession(id)
                       /\ DOMAIN sessions' = DOMAIN sessions \ {id} ]_vars
    /\ [][ Tick => sessions' = sessions ]_vars
    /\ [][ HandleHealthRequest =>
               /\ httpLast'.status = 200
               /\ httpLast'.result.body = "ok"
               /\ httpLast'.result.token = ToString(Cardinality(OpenIds))
               /\ sessions' = sessions ]_vars

\* Of two sessions initialized the first was closed, time has passed since,
\* and the health endpoint has just reported one session.
C35_Witness ==
    /\ httpLast.result.op = "health"
    /\ httpLast.result.token = "1"
    /\ ClosedIds = {"s1"}
    /\ DOMAIN sessions = {"s2"}
    /\ now > 0

\* C36: a POST to /mcp whose body is not JSON is answered 400 with the
\* JSON-RPC error of code -32700, by no transport, whether it carries no
\* session id, the id of a registered session or an unknown one; it creates no
\* server object, transport or session, leaves every session and its tenant
\* as it was, and starts no handler.
C36_InvalidJsonRejectedBeforeRouting ==
    [][ \A id \in HeaderIds \cup {""}, host \in Hosts :
          ParseError(id, host) =>
              /\ httpLast'.status = 400
              /\ httpLast'.result.status = -32700
              /\ httpLast'.session = id
              /\ httpLast'.conn = 0
              /\ Len(conns') = Len(conns)
              /\ Len(tenants') = Len(tenants)
              /\ UNCHANGED << sessions, conns, tenants, sessionInflight, netCalls >> ]_vars

\* The part of C36 that holds: when the URL of the request parses, a POST to
\* /mcp whose body is not JSON is answered 400 with code -32700 by no
\* transport, and creates, reaches and changes nothing.
C36_RejectedWhenUrlParses ==
    [][ \A id \in HeaderIds \cup {""}, host \in Hosts :
          (ParseError(id, host) /\ pathname("/mcp", host) # InvalidUrl) =>
              /\ httpLast'.status = 400
              /\ httpLast'.result.status = -32700
              /\ httpLast'.session = id
              /\ httpLast'.conn = 0
              /\ UNCHANGED << sessions, conns, tenants, sessionInflight, netCalls >> ]_vars

\* With session s1 registered, a body that is not JSON posted with the id s1
\* has just been answered 400 with code -32700, and s1 is still the one
\* session registered.
C36_Witness ==
    /\ httpLast.status = 400
    /\ httpLast.result.status = -32700
    /\ httpLast.session = "s1"
    /\ DOMAIN sessions = {"s1"}
    /\ Len(conns) = 1

\* C37: setup_credentials leaves no bearer token cached, and a grant that
\* was requested with a client id or client secret other than those the
\* tenant holds when the grant is answered (setup_credentials ran while it
\* was in flight) leaves the cache as it was, so that no later getToken()
\* is served a token granted for the previous credentials.
C37_NoTokenOfPreviousCredentials ==
    /\ [][ \A in \in CredInputs, diskOk \in BOOLEAN :
             SetupCredentials(in, diskOk) => oauth2Token' = "" ]_vars
    /\ [][ \A req \in BagToSet(inflight), resp \in GrantResponses :
             (GetTokenEnd(req, resp) /\ (req.token # clientId \/ req.secret # clientSecret)) =>
                 UNCHANGED << oauth2Token, oauth2TokenExpiry >> ]_vars

\* The parameters the flat map transmits, other than oauth_signature.
TransmittedParams ==
    [k \in DOMAIN signerOut.value \ {oauth_signature} |-> signerOut.value[k]]

\* C38: when buildOAuth1Params has returned, the signature base string it
\* signed is the RFC 5849 base string of exactly the parameters the flat map
\* transmits other than oauth_signature, and the oauth_signature the flat map
\* transmits is the signature computed over that base string, whatever the
\* caller's parameters are.
C38_TransmittedIsSigned ==
    (signerIn.fn = "buildOAuth1" /\ signerOut.done) =>
        /\ signerOut.baseString =
               BaseStringRfc5849(signerIn.method, signerIn.url, TransmittedParams)
        /\ oauth_signature \in DOMAIN signerOut.value
        /\ signerOut.value[oauth_signature] = signerOut.signature

\* C39: after every setup_credentials call the three credentials in memory
\* are those of the config file, and after every complete_auth call the user
\* token and secret in memory are those of the config file; a call that
\* fails (the write of the file throws, or the exchange fails) leaves the
\* credentials, the user token and the pending request token in memory as
\* they were before it.
C39_MemoryAgreesWithRecord ==
    /\ [][ \A in \in CredInputs, diskOk \in BOOLEAN :
             SetupCredentials(in, diskOk) =>
                 /\ clientId' = configFile'.clientId
                 /\ clientSecret' = configFile'.clientSecret
                 /\ oauth1Credentials'.consumerSecret = configFile'.consumerSecret
                 /\ ~diskOk => UNCHANGED << clientId, clientSecret, oauth1Credentials,
                                            pendingOAuth >> ]_vars
    /\ [][ \A req \in BagToSet(inflight), diskOk \in BOOLEAN :
             \A resp \in AccessTokenResponses(req.token, req.secret, req.verifier) :
                 CompleteAuthEnd(req, resp, diskOk) =>
                     /\ oauth1Credentials'.accessToken = configFile'.accessToken
                     /\ oauth1Credentials'.accessTokenSecret = configFile'.accessTokenSecret
                     /\ last'.err # "" => UNCHANGED << clientId, clientSecret, oauth1Credentials,
                                                       pendingOAuth >> ]_vars

=============================================================================
